---- MODULE Spec2Model ----
(***************************************************************************)
(* Trading arena: paper trading engine (paper_trader.py), agents           *)
(* (agent_factory.py), pressure response (survival_mode.py) and the race   *)
(* controller (arena.py).                                                  *)
(*                                                                         *)
(* Numbers.  The program computes with Python floats.  Here every float is *)
(* an exact rational <<n, d>> (d > 0, lowest terms), so + - * / and the    *)
(* comparisons are the real-number ones; rounding of doubles is not        *)
(* modelled.  A division by zero is modelled as the ZeroDivisionError that *)
(* Python raises.                                                          *)
(*                                                                         *)
(* Time.  datetime.utcnow() is the variable now (seconds).  Timestamps     *)
(* stored in positions and trade records (entry_time, time, hold_time) are *)
(* not modelled; the cache stamp cached_at is.                             *)
(***************************************************************************)
EXTENDS Integers, Sequences, FiniteSets, TLC

(***************************************************************************)
(* Bounds of the model                                                     *)
(***************************************************************************)
MaxTrades == 3
MaxCycles == 3
MaxBots == 7
MaxGenerations == 2
MaxExpiries == 2
MaxRaces == 2

(***************************************************************************)
(* Program constants                                                       *)
(***************************************************************************)
CacheDuration == 30
STARTING_CAPITAL == 1000

(***************************************************************************)
(* Exact rational arithmetic                                               *)
(***************************************************************************)
Abs(n) == IF n < 0 THEN -n ELSE n

RECURSIVE GCD(_, _)
GCD(a, b) == IF b = 0 THEN a ELSE GCD(b, a % b)

R(n, d) ==
    LET g == GCD(Abs(n), d)
    IN  <<n \div g, d \div g>>

I(n) == <<n, 1>>
Zero == <<0, 1>>
\* sums and products cancel common factors before they multiply, which
\* keeps the intermediate integers small
RAdd(x, y) ==
    LET g == GCD(x[2], y[2])
    IN  R(x[1] * (y[2] \div g) + y[1] * (x[2] \div g), (x[2] \div g) * y[2])
RNeg(x) == <<-x[1], x[2]>>
RSub(x, y) == RAdd(x, RNeg(y))
RMul(x, y) ==
    LET g1 == GCD(Abs(x[1]), y[2])
        g2 == GCD(Abs(y[1]), x[2])
    IN  R((x[1] \div g1) * (y[1] \div g2), (x[2] \div g2) * (y[2] \div g1))
RDiv(x, y) ==
    IF y[1] > 0 THEN RMul(x, <<y[2], y[1]>>)
    ELSE RMul(x, <<-y[2], -y[1]>>)
RLe(x, y) == RSub(x, y)[1] <= 0
RLt(x, y) == RSub(x, y)[1] < 0
RGe(x, y) == RLe(y, x)
RGt(x, y) == RLt(y, x)
RMin(x, y) == IF RLe(x, y) THEN x ELSE y
RMax(x, y) == IF RGe(x, y) THEN x ELSE y

(***************************************************************************)
(* Domains                                                                 *)
(***************************************************************************)
Symbols == {"BTC-USD", "ETH-USD"}
Directions == {"LONG", "SHORT"}

\* What one fresh market lookup (ticker.history) produces: a last close
\* (kind "ok"), an empty frame (kind "empty"), or an exception (kind "error")
Close(n) == [kind |-> "ok", close |-> n]
Failed(kind) == [kind |-> kind, close |-> 0]

\* Optional values: <<>> is Python's None, a price is a rational <<n, d>>
None == <<>>

(***************************************************************************)
(* State                                                                   *)
(***************************************************************************)
VARIABLES
    cash,             \* agent -> agent.cash
    positions,        \* agent -> agent.positions, a dict in insertion order
    trades,           \* agent -> agent.trades
    pnl_history,      \* agent -> agent.pnl_history
    strategy_params,  \* agent -> agent.strategy_params
    archetype,        \* agent -> agent.archetype["name"]
    price_cache,      \* PaperTrader.price_cache: symbol -> <<>> or <<[price, cached_at]>>
    race_status,      \* current_race.status
    start_time,       \* current_race.start_time, None until the race starts
    end_time,         \* current_race.end_time, None until the race ends
    now,              \* datetime.utcnow(), in seconds
    last,             \* the method called last and how it ended
    args,             \* the arguments of a function that is called on its own
    ret               \* what that function returned

vars == <<cash, positions, trades, pnl_history, strategy_params, archetype,
          price_cache, race_status, start_time, end_time, now, last, args,
          ret>>

\* current_race.agents, in list order
RaceAgents == <<1, 2>>
Agents == {RaceAgents[i] : i \in 1..Len(RaceAgents)}

(***************************************************************************)
(* PaperTrader.get_price                                                   *)
(***************************************************************************)
\* self.price_cache = {} after PaperTrader.__init__
EmptyCache == [s \in Symbols |-> <<>>]

\* a faulty variant of GetPrice: when the fresh lookup fails, the expired
\* cached price is returned
GetPriceStaleFallback(cache, t, symbol, lk) ==
    IF cache[symbol] # <<>> /\ t - cache[symbol][1].cached_at < CacheDuration
    THEN [price |-> cache[symbol][1].price, cache |-> cache]
    ELSE IF lk.kind = "ok"
         THEN [price |-> I(lk.close),
               cache |-> [cache EXCEPT ![symbol] =
                             <<[price |-> I(lk.close), cached_at |-> t]>>]]
         ELSE IF cache[symbol] # <<>>
         THEN [price |-> cache[symbol][1].price, cache |-> cache]
         ELSE [price |-> None, cache |-> cache]

\* lk is what the fresh lookup yields if one is made; the result carries the
\* returned price (None when unavailable) and the cache after the call
GetPrice(cache, t, symbol, lk) ==
    IF cache[symbol] # <<>> /\ t - cache[symbol][1].cached_at < CacheDuration
    THEN [price |-> cache[symbol][1].price, cache |-> cache]
    ELSE IF lk.kind = "ok"
         THEN [price |-> I(lk.close),
               cache |-> [cache EXCEPT ![symbol] =
                             <<[price |-> I(lk.close), cached_at |-> t]>>]]
         ELSE [price |-> None, cache |-> cache]

(***************************************************************************)
(* agent.positions: a dict keyed by symbol, kept as a sequence in          *)
(* insertion order                                                         *)
(***************************************************************************)
HasPosition(ps, symbol) == \E i \in 1..Len(ps) : ps[i].symbol = symbol

PositionOf(ps, symbol) ==
    ps[CHOOSE i \in 1..Len(ps) : ps[i].symbol = symbol]

\* agent.positions[symbol] = position
PutPosition(ps, position) ==
    IF HasPosition(ps, position.symbol)
    THEN [i \in 1..Len(ps) |->
             IF ps[i].symbol = position.symbol THEN position ELSE ps[i]]
    ELSE Append(ps, position)

\* del agent.positions[symbol]
DelPosition(ps, symbol) ==
    LET Keep(p) == p.symbol # symbol
    IN  SelectSeq(ps, Keep)

\* a faulty variant of SignedPnl: the LONG formula whatever the direction
SignedPnlLongOnly(position, current_price) ==
    RMul(RSub(current_price, position.entry_price), position.qty)

\* the signed P&L formula shared by execute_exit and update_positions
SignedPnl(position, current_price) ==
    IF position.direction = "LONG"
    THEN RMul(RSub(current_price, position.entry_price), position.qty)
    ELSE RMul(RSub(position.entry_price, current_price), position.qty)

\* the signed percentage move shared by check_stop_loss and check_take_profit
MovePct(position, current_price) ==
    IF position.direction = "LONG"
    THEN RMul(RDiv(RSub(current_price, position.entry_price),
                   position.entry_price), I(100))
    ELSE RMul(RDiv(RSub(position.entry_price, current_price),
                   position.entry_price), I(100))

(***************************************************************************)
(* PaperTrader.execute_entry                                               *)
(* ag is the agent's wallet [cash, positions, trades]                      *)
(***************************************************************************)
\* a faulty variant of CapitalToUse: the whole cash whatever size_pct
CapitalWholeCash(c, size_pct) == c

\* capital_to_use = agent.cash * size_pct
CapitalToUse(c, size_pct) == RMul(c, size_pct)

\* a faulty variant of InsufficientFunds: no entry is ever rejected
NeverInsufficient(margin_required, c) == FALSE

\* if margin_required > agent.cash
InsufficientFunds(margin_required, c) == RGt(margin_required, c)

\* a faulty variant of ExecuteEntry: the trade log is started afresh
ExecuteEntryRestartingLog(ag, cache, t, feed, symbol, direction, size_pct, leverage, reason) ==
    LET gp == GetPrice(cache, t, symbol, feed[symbol])
        price == gp.price
        capital_to_use == CapitalToUse(ag.cash, size_pct)
        notional_value == RMul(capital_to_use, leverage)
        qty == RDiv(notional_value, price)
        margin_required == capital_to_use
        position == [symbol |-> symbol, direction |-> direction, qty |-> qty,
                     entry_price |-> price, leverage |-> leverage,
                     margin |-> margin_required,
                     notional_value |-> notional_value,
                     unrealized_pnl |-> Zero, current_price |-> None,
                     reason |-> reason]
        trade_log == [type |-> "ENTRY", symbol |-> symbol,
                      direction |-> direction, price |-> price, qty |-> qty,
                      leverage |-> leverage, margin |-> margin_required,
                      reason |-> reason]
    IN  IF price = None
        THEN [ag |-> ag, cache |-> gp.cache, ret |-> <<>>, why |-> "no_price"]
        ELSE IF InsufficientFunds(margin_required, ag.cash)
        THEN [ag |-> ag, cache |-> gp.cache, ret |-> <<>>,
              why |-> "insufficient_funds"]
        ELSE [ag |-> [cash |-> RSub(ag.cash, margin_required),
                      positions |-> PutPosition(ag.positions, position),
                      trades |-> <<trade_log>>],
              cache |-> gp.cache, ret |-> <<position>>, why |-> "ok"]

ExecuteEntry(ag, cache, t, feed, symbol, direction, size_pct, leverage, reason) ==
    LET gp == GetPrice(cache, t, symbol, feed[symbol])
        price == gp.price
        capital_to_use == CapitalToUse(ag.cash, size_pct)
        notional_value == RMul(capital_to_use, leverage)
        qty == RDiv(notional_value, price)
        margin_required == capital_to_use
        position == [symbol |-> symbol, direction |-> direction, qty |-> qty,
                     entry_price |-> price, leverage |-> leverage,
                     margin |-> margin_required,
                     notional_value |-> notional_value,
                     unrealized_pnl |-> Zero, current_price |-> None,
                     reason |-> reason]
        trade_log == [type |-> "ENTRY", symbol |-> symbol,
                      direction |-> direction, price |-> price, qty |-> qty,
                      leverage |-> leverage, margin |-> margin_required,
                      reason |-> reason]
    IN  IF price = None
        THEN [ag |-> ag, cache |-> gp.cache, ret |-> <<>>, why |-> "no_price"]
        ELSE IF InsufficientFunds(margin_required, ag.cash)
        THEN [ag |-> ag, cache |-> gp.cache, ret |-> <<>>,
              why |-> "insufficient_funds"]
        ELSE [ag |-> [cash |-> RSub(ag.cash, margin_required),
                      positions |-> PutPosition(ag.positions, position),
                      trades |-> Append(ag.trades, trade_log)],
              cache |-> gp.cache, ret |-> <<position>>, why |-> "ok"]

(***************************************************************************)
(* PaperTrader.execute_exit                                                *)
(* raised: pnl / position["margin"] raised ZeroDivisionError               *)
(***************************************************************************)
\* a faulty variant of ExecuteExit: an exit of a symbol that is not open is
\* logged as a trade
ExecuteExitLogsMiss(ag, cache, t, feed, symbol, reason) ==
    IF ~HasPosition(ag.positions, symbol)
    THEN [ag |-> [ag EXCEPT !.trades =
                     Append(@, [type |-> "EXIT", symbol |-> symbol,
                                direction |-> "LONG", entry_price |-> Zero,
                                exit_price |-> Zero, qty |-> Zero,
                                pnl |-> Zero, pnl_pct |-> Zero,
                                reason |-> reason])],
          cache |-> cache, ret |-> <<>>, raised |-> FALSE,
          why |-> "no_position"]
    ELSE
    LET position == PositionOf(ag.positions, symbol)
        gp == GetPrice(cache, t, symbol, feed[symbol])
        current_price == gp.price
        pnl == SignedPnl(position, current_price)
        pnl_pct == RMul(RDiv(pnl, position.margin), I(100))
        trade_log == [type |-> "EXIT", symbol |-> symbol,
                      direction |-> position.direction,
                      entry_price |-> position.entry_price,
                      exit_price |-> current_price, qty |-> position.qty,
                      pnl |-> pnl, pnl_pct |-> pnl_pct, reason |-> reason]
    IN  IF current_price = None
        THEN [ag |-> ag, cache |-> gp.cache, ret |-> <<>>, raised |-> FALSE,
              why |-> "no_price"]
        ELSE IF position.margin = Zero
        THEN [ag |-> ag, cache |-> gp.cache, ret |-> <<>>, raised |-> TRUE,
              why |-> "raised"]
        ELSE [ag |-> [cash |-> RAdd(ag.cash, RAdd(position.margin, pnl)),
                      positions |-> DelPosition(ag.positions, symbol),
                      trades |-> Append(ag.trades, trade_log)],
              cache |-> gp.cache, ret |-> <<trade_log>>, raised |-> FALSE,
              why |-> "ok"]

ExecuteExit(ag, cache, t, feed, symbol, reason) ==
    IF ~HasPosition(ag.positions, symbol)
    THEN [ag |-> ag, cache |-> cache, ret |-> <<>>, raised |-> FALSE,
          why |-> "no_position"]
    ELSE
    LET position == PositionOf(ag.positions, symbol)
        gp == GetPrice(cache, t, symbol, feed[symbol])
        current_price == gp.price
        pnl == SignedPnl(position, current_price)
        pnl_pct == RMul(RDiv(pnl, position.margin), I(100))
        trade_log == [type |-> "EXIT", symbol |-> symbol,
                      direction |-> position.direction,
                      entry_price |-> position.entry_price,
                      exit_price |-> current_price, qty |-> position.qty,
                      pnl |-> pnl, pnl_pct |-> pnl_pct, reason |-> reason]
    IN  IF current_price = None
        THEN [ag |-> ag, cache |-> gp.cache, ret |-> <<>>, raised |-> FALSE,
              why |-> "no_price"]
        ELSE IF position.margin = Zero
        THEN [ag |-> ag, cache |-> gp.cache, ret |-> <<>>, raised |-> TRUE,
              why |-> "raised"]
        ELSE [ag |-> [cash |-> RAdd(ag.cash, RAdd(position.margin, pnl)),
                      positions |-> DelPosition(ag.positions, symbol),
                      trades |-> Append(ag.trades, trade_log)],
              cache |-> gp.cache, ret |-> <<trade_log>>, raised |-> FALSE,
              why |-> "ok"]

(***************************************************************************)
(* PaperTrader.update_positions                                            *)
(***************************************************************************)
Wallet(c, ps, ts) == [cash |-> c, positions |-> ps, trades |-> ts]

\* a faulty variant of UpdateFrom: marking also moves the entry price to the
\* fetched price
RECURSIVE UpdateFromRebasing(_, _, _, _, _)
UpdateFromRebasing(ps, cache, t, feed, i) ==
    IF i > Len(ps) THEN [positions |-> ps, cache |-> cache]
    ELSE
    LET gp == GetPrice(cache, t, ps[i].symbol, feed[ps[i].symbol])
        marked == [ps[i] EXCEPT !.unrealized_pnl = SignedPnl(ps[i], gp.price),
                                !.current_price = gp.price,
                                !.entry_price = gp.price]
    IN  IF gp.price # None
        THEN UpdateFromRebasing([ps EXCEPT ![i] = marked], gp.cache, t, feed,
                                i + 1)
        ELSE UpdateFromRebasing(ps, gp.cache, t, feed, i + 1)

\* the loop body for the i-th position and the rest of the loop
RECURSIVE UpdateFrom(_, _, _, _, _)
UpdateFrom(ps, cache, t, feed, i) ==
    IF i > Len(ps) THEN [positions |-> ps, cache |-> cache]
    ELSE
    LET gp == GetPrice(cache, t, ps[i].symbol, feed[ps[i].symbol])
        marked == [ps[i] EXCEPT !.unrealized_pnl = SignedPnl(ps[i], gp.price),
                                !.current_price = gp.price]
    IN  IF gp.price # None
        THEN UpdateFrom([ps EXCEPT ![i] = marked], gp.cache, t, feed, i + 1)
        ELSE UpdateFrom(ps, gp.cache, t, feed, i + 1)

\* a faulty variant of UpdatePositions: the prices are fetched and no
\* position is marked
UpdatePositionsIdle(ag, cache, t, feed) ==
    [ag |-> ag, cache |-> UpdateFrom(ag.positions, cache, t, feed, 1).cache]

UpdatePositions(ag, cache, t, feed) ==
    LET r == UpdateFrom(ag.positions, cache, t, feed, 1)
    IN  [ag |-> [ag EXCEPT !.positions = r.positions], cache |-> r.cache]

(***************************************************************************)
(* PaperTrader.check_stop_loss / check_take_profit                         *)
(* A call takes no time: time passes between calls (Tick).                 *)
(***************************************************************************)
\* pnl_pct <= -stop_loss_pct * 100
StopLossHit(position, current_price, stop_loss_pct) ==
    RLe(MovePct(position, current_price), RMul(RNeg(stop_loss_pct), I(100)))

\* pnl_pct >= take_profit_pct * 100
TakeProfitHit(position, current_price, take_profit_pct) ==
    RGe(MovePct(position, current_price), RMul(take_profit_pct, I(100)))

\* a faulty variant of StopLossScan: the loop ends at the first symbol
\* without a price
RECURSIVE StopLossScanBreak(_, _, _, _, _, _)
StopLossScanBreak(ps, cache, t, feed, stop_loss_pct, i) ==
    IF i > Len(ps) THEN [symbols_to_exit |-> <<>>, cache |-> cache]
    ELSE
    LET gp == GetPrice(cache, t, ps[i].symbol, feed[ps[i].symbol])
        rest == StopLossScanBreak(ps, gp.cache, t, feed, stop_loss_pct, i + 1)
    IN  IF gp.price = None
        THEN [symbols_to_exit |-> <<>>, cache |-> gp.cache]
        ELSE IF StopLossHit(ps[i], gp.price, stop_loss_pct)
        THEN [rest EXCEPT !.symbols_to_exit = <<ps[i].symbol>> \o @]
        ELSE rest

\* first loop of check_stop_loss: symbols_to_exit
RECURSIVE StopLossScan(_, _, _, _, _, _)
StopLossScan(ps, cache, t, feed, stop_loss_pct, i) ==
    IF i > Len(ps) THEN [symbols_to_exit |-> <<>>, cache |-> cache]
    ELSE
    LET gp == GetPrice(cache, t, ps[i].symbol, feed[ps[i].symbol])
        rest == StopLossScan(ps, gp.cache, t, feed, stop_loss_pct, i + 1)
    IN  IF gp.price # None /\ StopLossHit(ps[i], gp.price, stop_loss_pct)
        THEN [rest EXCEPT !.symbols_to_exit = <<ps[i].symbol>> \o @]
        ELSE rest

\* first loop of check_take_profit
RECURSIVE TakeProfitScan(_, _, _, _, _, _)
TakeProfitScan(ps, cache, t, feed, take_profit_pct, i) ==
    IF i > Len(ps) THEN [symbols_to_exit |-> <<>>, cache |-> cache]
    ELSE
    LET gp == GetPrice(cache, t, ps[i].symbol, feed[ps[i].symbol])
        rest == TakeProfitScan(ps, gp.cache, t, feed, take_profit_pct, i + 1)
    IN  IF gp.price # None /\ TakeProfitHit(ps[i], gp.price, take_profit_pct)
        THEN [rest EXCEPT !.symbols_to_exit = <<ps[i].symbol>> \o @]
        ELSE rest

\* second loop of both checks: execute_exit for each collected symbol; an
\* exception raised by execute_exit ends the loop and leaves the method
RECURSIVE ExitLoop(_, _, _, _, _, _, _)
ExitLoop(ag, cache, t, feed, symbols, reason, exits) ==
    IF symbols = <<>>
    THEN [ag |-> ag, cache |-> cache, exits |-> exits, raised |-> FALSE]
    ELSE
    LET r == ExecuteExit(ag, cache, t, feed, Head(symbols), reason)
    IN  IF r.raised
        THEN [ag |-> r.ag, cache |-> r.cache, exits |-> exits, raised |-> TRUE]
        ELSE ExitLoop(r.ag, r.cache, t, feed, Tail(symbols), reason,
                      exits \o r.ret)

CheckStopLoss(ag, cache, t, feed, stop_loss_pct) ==
    LET sc == StopLossScan(ag.positions, cache, t, feed, stop_loss_pct, 1)
    IN  ExitLoop(ag, sc.cache, t, feed, sc.symbols_to_exit, "STOP_LOSS", <<>>)

CheckTakeProfit(ag, cache, t, feed, take_profit_pct) ==
    LET sc == TakeProfitScan(ag.positions, cache, t, feed, take_profit_pct, 1)
    IN  ExitLoop(ag, sc.cache, t, feed, sc.symbols_to_exit, "TAKE_PROFIT", <<>>)


(***************************************************************************)
(* config.py, agent_factory.py: risk tiers, archetypes, agent construction *)
(***************************************************************************)
SURVIVAL_THRESHOLD == R(4, 10)

RISK_TIERS ==
    [moderate |-> [max_leverage |-> I(5), max_position_pct |-> R(3, 10)],
     high |-> [max_leverage |-> I(20), max_position_pct |-> R(5, 10)],
     yolo |-> [max_leverage |-> I(50), max_position_pct |-> I(1)]]

\* STRATEGY_ARCHETYPES[..]["preferred_assets"] of the archetypes that race here
PreferredAssets(name) ==
    IF name = "YOLO" THEN <<"BTC-USD", "ETH-USD", "SOL-USD">>
    ELSE IF name = "Scalper" THEN <<"BTC-USD", "ETH-USD">>
    ELSE IF name = "Mean Reverter" THEN <<"ETH-USD", "BTC-USD", "SPY">>
    ELSE <<"BTC-USD", "ETH-USD", "SPY">>

\* TradingAgent._generate_strategy_params; draw holds the values the random
\* generator returned
GenerateStrategyParams(name, risk_tier, draw) ==
    LET base_params ==
            [entry_threshold |-> draw.entry_threshold,
             stop_loss_pct |-> draw.stop_loss_pct,
             take_profit_pct |-> draw.take_profit_pct,
             max_positions |-> draw.max_positions,
             position_size_pct |-> draw.position_size_pct,
             max_leverage |-> RISK_TIERS[risk_tier].max_leverage,
             min_hold_minutes |-> draw.min_hold_minutes,
             preferred_assets |-> PreferredAssets(name)]
    IN  IF name = "YOLO"
        THEN [base_params EXCEPT !.max_positions = 1,
                                 !.position_size_pct = I(1)]
        ELSE IF name = "Scalper"
        THEN [base_params EXCEPT !.min_hold_minutes = 2,
                                 !.stop_loss_pct = R(1, 100),
                                 !.take_profit_pct = R(2, 100),
                                 !.max_positions = 3]
        ELSE IF name = "Breakout Hunter"
        THEN [base_params EXCEPT !.stop_loss_pct = R(5, 100),
                                 !.take_profit_pct = R(12, 100)]
        ELSE IF name = "Mean Reverter"
        THEN [base_params EXCEPT !.entry_threshold = R(3, 10)]
        ELSE base_params

\* TradingAgent.portfolio_value, total_pnl, total_pnl_pct
RECURSIVE SumField(_, _)
SumField(ps, f) ==
    IF ps = <<>> THEN Zero ELSE RAdd(Head(ps)[f], SumField(Tail(ps), f))

PortfolioValue(ag) ==
    RAdd(ag.cash, RAdd(SumField(ag.positions, "margin"),
                       SumField(ag.positions, "unrealized_pnl")))

TotalPnl(ag) == RSub(PortfolioValue(ag), I(STARTING_CAPITAL))

TotalPnlPct(ag) == RMul(RDiv(TotalPnl(ag), I(STARTING_CAPITAL)), I(100))

\* TradingAgent.win_rate: t.get("pnl", 0) > 0 over all of agent.trades
WinRate(ag) ==
    IF ag.trades = <<>> THEN Zero
    ELSE LET winners ==
                 Cardinality({i \in 1..Len(ag.trades) :
                                 /\ "pnl" \in DOMAIN ag.trades[i]
                                 /\ RGt(ag.trades[i].pnl, Zero)})
         IN  RMul(RDiv(I(winners), I(Len(ag.trades))), I(100))

(***************************************************************************)
(* SignalGenerator.generate_signal                                         *)
(* data is what get_market_data returned: <<>> (None) or <<record>>        *)
(***************************************************************************)
RAbs(x) == <<Abs(x[1]), x[2]>>

Signal(direction, strength, reason) ==
    <<[direction |-> direction, strength |-> strength, reason |-> reason]>>

ArchetypeSignal(name, params, d) ==
    IF name = "YOLO"
    THEN IF RGt(RAbs(d.change_pct), I(3))
         THEN Signal(IF RGt(d.change_pct, Zero) THEN "LONG" ELSE "SHORT",
                     RDiv(RAbs(d.change_pct), I(5)), "YOLO")
         ELSE None
    ELSE IF name = "Breakout Hunter"
    THEN LET range_pct == RMul(RDiv(RSub(d.high, d.low), d.low), I(100))
         IN  IF RGt(d.price, RMul(d.high, R(98, 100))) /\ RGt(range_pct, I(2))
             THEN Signal("LONG", R(7, 10), "Breakout")
             ELSE IF RLt(d.price, RMul(d.low, R(102, 100)))
                     /\ RGt(range_pct, I(2))
             THEN Signal("SHORT", R(7, 10), "Breakdown")
             ELSE None
    ELSE IF name = "Mean Reverter"
    THEN IF RLt(d.rsi, I(30))
         THEN Signal("LONG", RDiv(RSub(I(30), d.rsi), I(30)), "Oversold")
         ELSE IF RGt(d.rsi, I(70))
         THEN Signal("SHORT", RDiv(RSub(d.rsi, I(70)), I(30)), "Overbought")
         ELSE None
    ELSE IF name = "Trend Follower"
    THEN IF d.trend = "UP" /\ RLt(d.rsi, I(60))
         THEN Signal("LONG", R(6, 10), "Trend")
         ELSE IF d.trend = "DOWN" /\ RGt(d.rsi, I(40))
         THEN Signal("SHORT", R(6, 10), "Trend")
         ELSE None
    ELSE IF name = "Momentum Surfer"
    THEN IF RGt(d.change_pct, I(1)) /\ d.trend = "UP"
         THEN Signal("LONG", RDiv(d.change_pct, I(3)), "Momentum")
         ELSE IF RLt(d.change_pct, I(-1)) /\ d.trend = "DOWN"
         THEN Signal("SHORT", RDiv(RAbs(d.change_pct), I(3)), "Momentum")
         ELSE None
    ELSE IF name = "Contrarian"
    THEN IF RLt(d.change_pct, I(-5))
         THEN Signal("LONG", RDiv(RAbs(d.change_pct), I(10)), "Contrarian")
         ELSE IF RGt(d.change_pct, I(5))
         THEN Signal("SHORT", RDiv(d.change_pct, I(10)), "Contrarian")
         ELSE None
    ELSE IF name = "Scalper"
    THEN IF RLt(R(1, 2), RAbs(d.change_pct)) /\ RLt(RAbs(d.change_pct), I(2))
         THEN Signal(IF RGt(d.change_pct, Zero) THEN "LONG" ELSE "SHORT",
                     R(1, 2), "Scalp")
         ELSE None
    ELSE IF RGt(d.change_pct, RMul(params.entry_threshold, I(100)))
         THEN Signal("LONG", RDiv(d.change_pct, I(5)), "Default")
         ELSE IF RLt(d.change_pct, RMul(RNeg(params.entry_threshold), I(100)))
         THEN Signal("SHORT", RDiv(RAbs(d.change_pct), I(5)), "Default")
         ELSE None

\* a faulty variant of GenerateSignal: the entry threshold is not applied
GenerateSignalUnfiltered(name, params, data) ==
    IF data = <<>> THEN None ELSE ArchetypeSignal(name, params, data[1])

GenerateSignal(name, params, data) ==
    IF data = <<>> THEN None
    ELSE LET signal == ArchetypeSignal(name, params, data[1])
         IN  IF signal # None /\ RLt(signal[1].strength, params.entry_threshold)
             THEN None
             ELSE signal

(***************************************************************************)
(* survival_mode.py                                                        *)
(***************************************************************************)
Min(x, y) == IF x <= y THEN x ELSE y
Max(x, y) == IF x >= y THEN x ELSE y

\* a faulty variant of InsertDesc: an element goes before the elements of
\* equal key, which reverses their order
InsertDescBeforeTies(sorted, x, key) ==
    LET k == Cardinality({i \in 1..Len(sorted) : RGt(sorted[i][key], x[key])})
    IN  SubSeq(sorted, 1, k) \o <<x>> \o SubSeq(sorted, k + 1, Len(sorted))

\* list.sort(key, reverse=True): descending and stable
InsertDesc(sorted, x, key) ==
    LET k == Cardinality({i \in 1..Len(sorted) : RGe(sorted[i][key], x[key])})
    IN  SubSeq(sorted, 1, k) \o <<x>> \o SubSeq(sorted, k + 1, Len(sorted))

RECURSIVE SortDesc(_, _)
SortDesc(s, key) ==
    IF s = <<>> THEN <<>>
    ELSE InsertDesc(SortDesc(SubSeq(s, 1, Len(s) - 1), key), s[Len(s)], key)

\* calculate_standings over the dicts run_cycle builds; W maps an agent to
\* its wallet
StandingsOf(agents, W) ==
    SortDesc([i \in 1..Len(agents) |->
                 [agent_id |-> agents[i],
                  total_pnl |-> TotalPnl(W[agents[i]]),
                  pnl_pct |-> TotalPnlPct(W[agents[i]])]], "pnl_pct")

CalculateStandings(W) == StandingsOf(RaceAgents, W)

\* a faulty variant of GetEliminationZone: the count is rounded up
GetEliminationZoneRoundUp(standings, total_bots) ==
    IF standings = <<>> THEN {}
    ELSE LET elimination_count ==
                 Min(Max(1, (total_bots * 4 + 9) \div 10), Len(standings))
         IN  {standings[i].agent_id :
                 i \in (Len(standings) - elimination_count + 1)..Len(standings)}

\* get_elimination_zone: the agent ids of the last elimination_count standings
GetEliminationZone(standings, total_bots) ==
    IF standings = <<>> THEN {}
    ELSE LET elimination_count ==
                 Min(Max(1, (total_bots * 4) \div 10), Len(standings))
         IN  {standings[i].agent_id :
                 i \in (Len(standings) - elimination_count + 1)..Len(standings)}

\* apply_survival_mode, as far as run_cycle reads its result: the value of
\* risk_management['leverage'], <<>> when the key is absent.  The dict it
\* is given is strategy_params.copy(), which has no 'leverage' key.
SurvivalLeverage(name) ==
    IF name = "YOLO" THEN <<Min(10 + 5, 20)>> ELSE <<>>

(***************************************************************************)
(* Arena._run_agent_cycle                                                  *)
(* market maps a symbol to what get_market_data returns for it; a symbol   *)
(* outside the modelled market has no data                                 *)
(***************************************************************************)
MarketData(market, symbol) ==
    IF symbol \in DOMAIN market THEN market[symbol] ELSE <<>>

\* a faulty variant of EntryLeverage: the ceiling is not applied
EntryLeverageUncapped(params, strength) == RAdd(I(1), RMul(strength, I(10)))

\* leverage=min(max_leverage, 1 + signal["strength"] * 10)
EntryLeverage(params, strength) ==
    RMin(params.max_leverage, RAdd(I(1), RMul(strength, I(10))))

\* a faulty variant of EntryScan: the loop goes on after a successful entry
RECURSIVE EntryScanNoBreak(_, _, _, _, _, _, _, _)
EntryScanNoBreak(ag, cache, t, feed, market, params, name, i) ==
    IF i > Len(params.preferred_assets) THEN [ag |-> ag, cache |-> cache]
    ELSE
    LET symbol == params.preferred_assets[i]
        signal == GenerateSignal(name, params, MarketData(market, symbol))
        r == ExecuteEntry(ag, cache, t, feed, symbol, signal[1].direction,
                          params.position_size_pct,
                          EntryLeverage(params, signal[1].strength),
                          signal[1].reason)
    IN  IF HasPosition(ag.positions, symbol) \/ signal = None
        THEN EntryScanNoBreak(ag, cache, t, feed, market, params, name, i + 1)
        ELSE EntryScanNoBreak(r.ag, r.cache, t, feed, market, params, name,
                              i + 1)

\* a faulty variant of EntryScan: a symbol that is open is not skipped
RECURSIVE EntryScanReentering(_, _, _, _, _, _, _, _)
EntryScanReentering(ag, cache, t, feed, market, params, name, i) ==
    IF i > Len(params.preferred_assets) THEN [ag |-> ag, cache |-> cache]
    ELSE
    LET symbol == params.preferred_assets[i]
        signal == GenerateSignal(name, params, MarketData(market, symbol))
        r == ExecuteEntry(ag, cache, t, feed, symbol, signal[1].direction,
                          params.position_size_pct,
                          EntryLeverage(params, signal[1].strength),
                          signal[1].reason)
    IN  IF signal # None /\ RGe(signal[1].strength, params.entry_threshold)
        THEN IF r.ret # <<>>
             THEN [ag |-> r.ag, cache |-> r.cache]
             ELSE EntryScanReentering(r.ag, r.cache, t, feed, market, params,
                                      name, i + 1)
        ELSE EntryScanReentering(ag, cache, t, feed, market, params, name,
                                 i + 1)

\* the loop over preferred_assets from its i-th element on
RECURSIVE EntryScan(_, _, _, _, _, _, _, _)
EntryScan(ag, cache, t, feed, market, params, name, i) ==
    IF i > Len(params.preferred_assets) THEN [ag |-> ag, cache |-> cache]
    ELSE
    LET symbol == params.preferred_assets[i]
        signal == GenerateSignal(name, params, MarketData(market, symbol))
        r == ExecuteEntry(ag, cache, t, feed, symbol, signal[1].direction,
                          params.position_size_pct,
                          EntryLeverage(params, signal[1].strength),
                          signal[1].reason)
    IN  IF HasPosition(ag.positions, symbol)
        THEN EntryScan(ag, cache, t, feed, market, params, name, i + 1)
        ELSE IF signal # None
                /\ RGe(signal[1].strength, params.entry_threshold)
        THEN IF r.ret # <<>>
             THEN [ag |-> r.ag, cache |-> r.cache]
             ELSE EntryScan(r.ag, r.cache, t, feed, market, params, name, i + 1)
        ELSE EntryScan(ag, cache, t, feed, market, params, name, i + 1)

\* a faulty variant of EntryStep: the scan runs whatever is open
EntryStepUncapped(ag, cache, t, feed, market, params, name) ==
    EntryScan(ag, cache, t, feed, market, params, name, 1)

\* if len(agent.positions) < max_positions: scan
EntryStep(ag, cache, t, feed, market, params, name) ==
    IF Len(ag.positions) < params.max_positions
    THEN EntryScan(ag, cache, t, feed, market, params, name, 1)
    ELSE [ag |-> ag, cache |-> cache]

PnlRecord(ag) ==
    [portfolio_value |-> PortfolioValue(ag), cash |-> ag.cash,
     positions |-> Len(ag.positions)]

\* "x = call(...)" followed by the statements Rest(x): the call is made
\* once and the statements read its result
Bind(v, Rest(_)) == CHOOSE y \in {Rest(x) : x \in {v}} : TRUE

\* a faulty variant of RunAgentCycle: the entry scan runs before the two
\* exit checks
RunAgentCycleEntryFirst(ag, hist, params, name, cache, t, feed, market) ==
    Bind(UpdatePositions(ag, cache, t, feed), LAMBDA up :
    Bind(EntryStep(up.ag, up.cache, t, feed, market, params, name), LAMBDA en :
    Bind(CheckStopLoss(en.ag, en.cache, t, feed, params.stop_loss_pct),
         LAMBDA sl :
    IF sl.raised
    THEN [ag |-> sl.ag, hist |-> hist, cache |-> sl.cache, raised |-> TRUE]
    ELSE
    Bind(CheckTakeProfit(sl.ag, sl.cache, t, feed, params.take_profit_pct),
         LAMBDA tp :
    IF tp.raised
    THEN [ag |-> tp.ag, hist |-> hist, cache |-> tp.cache, raised |-> TRUE]
    ELSE [ag |-> tp.ag, hist |-> Append(hist, PnlRecord(tp.ag)),
          cache |-> tp.cache, raised |-> FALSE]))))

\* ag is the wallet, hist the agent's pnl_history; raised: an exception left
\* the method
RunAgentCycle(ag, hist, params, name, cache, t, feed, market) ==
    Bind(UpdatePositions(ag, cache, t, feed), LAMBDA up :
    Bind(CheckStopLoss(up.ag, up.cache, t, feed, params.stop_loss_pct),
         LAMBDA sl :
    IF sl.raised
    THEN [ag |-> sl.ag, hist |-> hist, cache |-> sl.cache, raised |-> TRUE]
    ELSE
    Bind(CheckTakeProfit(sl.ag, sl.cache, t, feed, params.take_profit_pct),
         LAMBDA tp :
    IF tp.raised
    THEN [ag |-> tp.ag, hist |-> hist, cache |-> tp.cache, raised |-> TRUE]
    ELSE
    Bind(EntryStep(tp.ag, tp.cache, t, feed, market, params, name), LAMBDA en :
    [ag |-> en.ag, hist |-> Append(hist, PnlRecord(en.ag)),
     cache |-> en.cache, raised |-> FALSE]))))

(***************************************************************************)
(* Arena.run_cycle and Arena.end_race, on the world w: the agents' fields  *)
(* and the trader's cache                                                  *)
(***************************************************************************)
World ==
    [cash |-> cash, positions |-> positions, trades |-> trades,
     pnl_history |-> pnl_history, strategy_params |-> strategy_params,
     cache |-> price_cache]

WalletIn(w, a) == Wallet(w.cash[a], w.positions[a], w.trades[a])

Wallets(w) == [a \in Agents |-> WalletIn(w, a)]

\* a faulty variant of CycleLoop: the agents share one cash balance
RECURSIVE CycleLoopSharedCash(_, _, _, _, _, _)
CycleLoopSharedCash(w, i, elimination_zone, t, feed, market) ==
    IF i > Len(RaceAgents) THEN [w |-> w, raised |-> FALSE]
    ELSE
    LET a == RaceAgents[i]
    IN  Bind(RunAgentCycle(WalletIn(w, a), w.pnl_history[a],
                           w.strategy_params[a], archetype[a], w.cache, t,
                           feed, market), LAMBDA r :
        Bind([cash |-> [b \in Agents |-> r.ag.cash],
              positions |-> [w.positions EXCEPT ![a] = r.ag.positions],
              trades |-> [w.trades EXCEPT ![a] = r.ag.trades],
              pnl_history |-> [w.pnl_history EXCEPT ![a] = r.hist],
              strategy_params |-> w.strategy_params,
              cache |-> r.cache], LAMBDA w2 :
        IF r.raised THEN [w |-> w2, raised |-> TRUE]
        ELSE CycleLoopSharedCash(w2, i + 1, elimination_zone, t, feed,
                                 market)))

\* a faulty variant of CycleLoop: survival mode is applied to every agent,
\* in the elimination zone or not
RECURSIVE CycleLoopAdjustingAll(_, _, _, _, _, _)
CycleLoopAdjustingAll(w, i, elimination_zone, t, feed, market) ==
    IF i > Len(RaceAgents) THEN [w |-> w, raised |-> FALSE]
    ELSE
    LET a == RaceAgents[i]
        leverage == SurvivalLeverage(archetype[a])
        params == IF leverage # <<>>
                  THEN [w.strategy_params[a] EXCEPT
                           !.max_leverage = I(leverage[1])]
                  ELSE w.strategy_params[a]
    IN  Bind(RunAgentCycle(WalletIn(w, a), w.pnl_history[a], params,
                           archetype[a], w.cache, t, feed, market), LAMBDA r :
        Bind([cash |-> [w.cash EXCEPT ![a] = r.ag.cash],
              positions |-> [w.positions EXCEPT ![a] = r.ag.positions],
              trades |-> [w.trades EXCEPT ![a] = r.ag.trades],
              pnl_history |-> [w.pnl_history EXCEPT ![a] = r.hist],
              strategy_params |-> [w.strategy_params EXCEPT ![a] = params],
              cache |-> r.cache], LAMBDA w2 :
        IF r.raised THEN [w |-> w2, raised |-> TRUE]
        ELSE CycleLoopAdjustingAll(w2, i + 1, elimination_zone, t, feed,
                                   market)))

\* the body of "for agent in self.current_race.agents" for the i-th agent
\* and the rest of the loop; an exception ends the loop and run_cycle
RECURSIVE CycleLoop(_, _, _, _, _, _)
CycleLoop(w, i, elimination_zone, t, feed, market) ==
    IF i > Len(RaceAgents) THEN [w |-> w, raised |-> FALSE]
    ELSE
    LET a == RaceAgents[i]
        leverage == SurvivalLeverage(archetype[a])
        params == IF a \in elimination_zone /\ leverage # <<>>
                  THEN [w.strategy_params[a] EXCEPT
                           !.max_leverage = I(leverage[1])]
                  ELSE w.strategy_params[a]
    IN  Bind(RunAgentCycle(WalletIn(w, a), w.pnl_history[a], params,
                           archetype[a], w.cache, t, feed, market), LAMBDA r :
        Bind([cash |-> [w.cash EXCEPT ![a] = r.ag.cash],
              positions |-> [w.positions EXCEPT ![a] = r.ag.positions],
              trades |-> [w.trades EXCEPT ![a] = r.ag.trades],
              pnl_history |-> [w.pnl_history EXCEPT ![a] = r.hist],
              strategy_params |-> [w.strategy_params EXCEPT ![a] = params],
              cache |-> r.cache], LAMBDA w2 :
        IF r.raised THEN [w |-> w2, raised |-> TRUE]
        ELSE CycleLoop(w2, i + 1, elimination_zone, t, feed, market)))

RunTradingCycle(w, t, feed, market) ==
    LET standings == CalculateStandings(Wallets(w))
        elimination_zone == GetEliminationZone(standings, Len(RaceAgents))
    IN  CycleLoop(w, 1, elimination_zone, t, feed, market)

\* list(agent.positions.keys())
RECURSIVE Keys(_)
Keys(ps) == IF ps = <<>> THEN <<>> ELSE <<Head(ps).symbol>> \o Keys(Tail(ps))

\* "Close all positions for final accounting", from the i-th agent on
RECURSIVE CloseAll(_, _, _, _)
CloseAll(w, i, t, feed) ==
    IF i > Len(RaceAgents) THEN [w |-> w, raised |-> FALSE]
    ELSE
    LET a == RaceAgents[i]
    IN  Bind(ExitLoop(WalletIn(w, a), w.cache, t, feed,
                      Keys(w.positions[a]), "RACE_END", <<>>), LAMBDA r :
        Bind([w EXCEPT !.cash[a] = r.ag.cash,
                       !.positions[a] = r.ag.positions,
                       !.trades[a] = r.ag.trades,
                       !.cache = r.cache], LAMBDA w2 :
        IF r.raised THEN [w |-> w2, raised |-> TRUE]
        ELSE CloseAll(w2, i + 1, t, feed)))

\* Race.get_leaderboard: sorted by pnl, descending
LeaderboardOf(agents, W) ==
    LET leaderboard ==
            SortDesc([i \in 1..Len(agents) |->
                         [rank |-> 0,
                          name |-> agents[i],
                          pnl |-> TotalPnl(W[agents[i]]),
                          pnl_pct |-> TotalPnlPct(W[agents[i]])]], "pnl")
    IN  [i \in 1..Len(leaderboard) |-> [leaderboard[i] EXCEPT !.rank = i]]

GetLeaderboard(W) == LeaderboardOf(RaceAgents, W)

\* int(x) of a non-negative rational
Trunc(x) == x[1] \div x[2]

\* num_survivors = int(len(leaderboard) * (1 - SURVIVAL_THRESHOLD))
NumSurvivors(n) == Trunc(RMul(I(n), RSub(I(1), SURVIVAL_THRESHOLD)))

\* the names of the entries of a leaderboard slice
RECURSIVE Names(_)
Names(entries) ==
    IF entries = <<>> THEN <<>>
    ELSE <<Head(entries).name>> \o Names(Tail(entries))

\* end_race from "Determine survivors" on: the results dict it builds, and
\* whether the elimination ceremony raised before the dict was returned
EndRaceResults(leaderboard) ==
    LET num_survivors == NumSurvivors(Len(leaderboard))
        survivors == SubSeq(leaderboard, 1, num_survivors)
        eliminated == SubSeq(leaderboard, num_survivors + 1, Len(leaderboard))
    IN  [final_leaderboard |-> leaderboard,
         survivors |-> Names(survivors),
         eliminated |-> Names(eliminated),
         raised |-> eliminated # <<>>]

\* end_race: the world after it, and whether an exception left it.  The
\* elimination ceremony evaluates dramatic_lines.get(e, ...) with e a
\* leaderboard entry (a dict), which raises TypeError for the first
\* eliminated entry.
EndRace(w, t, feed) ==
    Bind(CloseAll(w, 1, t, feed), LAMBDA closed :
    Bind(GetLeaderboard(Wallets(closed.w)), LAMBDA leaderboard :
    IF closed.raised THEN closed
    ELSE [w |-> closed.w, raised |-> EndRaceResults(leaderboard).raised]))

\* a faulty variant of IsComplete: the round is over only after its duration
IsCompleteLate(duration) ==
    start_time # None /\ now > start_time[1] + duration

\* Race.is_complete
IsComplete(duration) ==
    start_time # None /\ now >= start_time[1] + duration

(***************************************************************************)
(* evolution_engine.py: StrategyMutator                                    *)
(* An agent dict is the record to_dict builds (color, risk_tier,           *)
(* portfolio_value, total_pnl_pct and win_rate are left out); a name and   *)
(* an agent id are sequences of tokens.                                    *)
(***************************************************************************)
MUTATION_LEVELS ==
    [conservative |-> R(1, 10), moderate |-> R(2, 10),
     aggressive |-> R(35, 100), extreme |-> R(5, 10)]

MUTABLE_PARAMS ==
    [entry_threshold |->
         [min_val |-> R(5, 100), max_val |-> R(5, 10), mode |-> "multiply"],
     stop_loss_pct |->
         [min_val |-> R(5, 1000), max_val |-> R(15, 100), mode |-> "multiply"],
     take_profit_pct |->
         [min_val |-> R(2, 100), max_val |-> R(25, 100), mode |-> "multiply"],
     max_positions |-> [min_val |-> 1, max_val |-> 5, mode |-> "int"],
     position_size_pct |->
         [min_val |-> R(1, 10), max_val |-> I(1), mode |-> "multiply"],
     max_leverage |->
         [min_val |-> I(2), max_val |-> I(20), mode |-> "multiply"],
     min_hold_minutes |-> [min_val |-> 2, max_val |-> 120, mode |-> "int"]]

\* list(self.MUTABLE_PARAMS.keys())
MutableKeys ==
    <<"entry_threshold", "stop_loss_pct", "take_profit_pct", "max_positions",
      "position_size_pct", "max_leverage", "min_hold_minutes">>

\* StrategyMutator(mutation_level="moderate").mutation_rate
mutation_rate == MUTATION_LEVELS.moderate

\* int(x) of a rational: towards zero
IntOf(x) == IF x[1] >= 0 THEN x[1] \div x[2] ELSE -((-x[1]) \div x[2])

\* max(min_val, min(max_val, new_val))
Clamped(param, new_val) ==
    LET b == MUTABLE_PARAMS[param]
    IN  IF b.mode = "int"
        THEN Max(b.min_val, Min(b.max_val, new_val))
        ELSE RMax(b.min_val, RMin(b.max_val, new_val))

\* the body of the loops of _mutate_conservative and _mutate_aggressive:
\* change is the factor for a "multiply" parameter and the step for an
\* "int" one
Tweak(result, param, change) ==
    IF param \notin DOMAIN result THEN result
    ELSE IF MUTABLE_PARAMS[param].mode = "multiply"
    THEN [result EXCEPT ![param] = Clamped(param, RMul(result[param], change))]
    ELSE [result EXCEPT ![param] = Clamped(param, result[param] + change)]

\* draws: one record per iteration, with the parameter random.choice picked
\* and what random.uniform(-0.1, 0.1) and random.randint(-1, 1) return
RECURSIVE MutateConservative(_, _)
MutateConservative(params, draws) ==
    IF draws = <<>> THEN params
    ELSE LET d == Head(draws)
         IN  MutateConservative(
                 Tweak(params, d.param,
                       IF MUTABLE_PARAMS[d.param].mode = "multiply"
                       THEN RAdd(I(1), d.uniform) ELSE d.randint),
                 Tail(draws))

\* tighter: the first random.random() < 0.5; higher: the second one
MutateRisk(params, tighter, higher) ==
    LET stops ==
            IF "stop_loss_pct" \in DOMAIN params
            THEN [params EXCEPT !.stop_loss_pct =
                     RMul(@, IF tighter THEN R(7, 10) ELSE R(13, 10))]
            ELSE params
    IN  IF "take_profit_pct" \in DOMAIN stops
        THEN [stops EXCEPT !.take_profit_pct =
                 RMul(@, IF higher THEN R(12, 10) ELSE R(8, 10))]
        ELSE stops

\* sample: random.sample(pool, num_assets) of the pool random.choice picked
MutateAssets(params, sample) == [params EXCEPT !.preferred_assets = sample]

\* faster: random.random() < 0.5
MutateTimeHorizon(params, faster) ==
    IF "min_hold_minutes" \notin DOMAIN params THEN params
    ELSE IF faster
    THEN [params EXCEPT !.min_hold_minutes =
             Max(2, IntOf(RMul(I(@), R(5, 10))))]
    ELSE [params EXCEPT !.min_hold_minutes = Min(120, IntOf(RMul(I(@), I(2))))]

MutateLeverage(params, extreme) ==
    IF "max_leverage" \notin DOMAIN params THEN params
    ELSE IF extreme
    THEN [params EXCEPT !.max_leverage = I(20), !.position_size_pct = I(1)]
    ELSE [params EXCEPT !.max_leverage = RMax(I(2), RMul(@, R(5, 10)))]

\* draws: one record per parameter of random.sample(keys, 4), with what
\* random.uniform(-rate, rate) and random.randint(-5, 5) return
RECURSIVE MutateAggressive(_, _)
MutateAggressive(params, draws) ==
    IF draws = <<>> THEN params
    ELSE LET d == Head(draws)
         IN  MutateAggressive(
                 Tweak(params, d.param,
                       IF MUTABLE_PARAMS[d.param].mode = "multiply"
                       THEN RAdd(I(1), d.uniform)
                       ELSE IntOf(RMul(I(d.randint), mutation_rate))),
                 Tail(draws))

\* a faulty variant of GetParamChanges: every key is listed, changed or not
GetParamChangesListingAll(old, new) ==
    [key \in DOMAIN old \cup DOMAIN new |->
        [from |-> IF key \in DOMAIN old THEN <<old[key]>> ELSE None,
         to |-> IF key \in DOMAIN new THEN <<new[key]>> ELSE None]]

\* _get_param_changes: the keys whose values differ, with both values
GetParamChanges(old, new) ==
    [key \in {k \in DOMAIN old \cup DOMAIN new :
                 \/ k \notin DOMAIN old
                 \/ k \notin DOMAIN new
                 \/ old[k] # new[k]} |->
        [from |-> IF key \in DOMAIN old THEN <<old[key]>> ELSE None,
         to |-> IF key \in DOMAIN new THEN <<new[key]>> ELSE None]]

\* old_name.split('_')[0] if '_' in old_name else old_name
BaseName(old_name) ==
    LET at == {i \in 1..Len(old_name) : old_name[i] = "_"}
    IN  IF at = {} THEN old_name
        ELSE SubSeq(old_name, 1, (CHOOSE i \in at : \A j \in at : i <= j) - 1)

\* a faulty variant of ResetPerformance: the cash of the copy is kept
ResetPerformanceKeepCash(child) ==
    [child EXCEPT !.trades = <<>>, !.pnl_history = <<>>, !.positions = <<>>]

\* "Reset performance metrics for new race"
ResetPerformance(child) ==
    [child EXCEPT !.trades = <<>>, !.pnl_history = <<>>,
                  !.cash = child.starting_capital, !.positions = <<>>]

\* mutate_agent of a parent whose strategy_params are not empty: draw holds
\* what the random generator returned and t is datetime.utcnow(); the
\* result carries the child and the parent dict as the call leaves it (the
\* child is a deep copy: the parent is not written)
MutateAgent(parent_agent, mutation_type, draw, t) ==
    LET old_name == parent_agent.name
        new_name == BaseName(old_name) \o <<"-", draw.suffix>>
        kind == IF mutation_type = "random" THEN draw.choice ELSE mutation_type
        given == parent_agent.strategy_params
        params ==
            IF kind = "conservative" THEN MutateConservative(given, draw.tweaks)
            ELSE IF kind = "risk_adjust"
            THEN MutateRisk(given, draw.tighter, draw.higher)
            ELSE IF kind = "asset_shift" THEN MutateAssets(given, draw.sample)
            ELSE IF kind = "time_horizon"
            THEN MutateTimeHorizon(given, draw.faster)
            ELSE IF kind = "leverage" THEN MutateLeverage(given, TRUE)
            ELSE IF kind = "aggressive" THEN MutateAggressive(given, draw.tweaks)
            ELSE given
        child ==
            [agent_id |-> <<parent_agent.agent_id[1], "_mut_", draw.serial>>,
             name |-> new_name,
             archetype |-> parent_agent.archetype,
             starting_capital |-> parent_agent.starting_capital,
             cash |-> parent_agent.cash,
             positions |-> parent_agent.positions,
             trades |-> parent_agent.trades,
             pnl_history |-> parent_agent.pnl_history,
             strategy_params |-> params,
             created_at |-> t,
             total_pnl |-> parent_agent.total_pnl,
             parent |-> old_name,
             mutation_type |-> mutation_type,
             mutated_params |->
                 [type |-> kind, rate |-> mutation_rate,
                  changes |-> GetParamChanges(given, params)]]
    IN  [child |-> ResetPerformance(child), parent_agent |-> parent_agent]

(***************************************************************************)
(* strategy_evolution.py: StrategyEvolver.  lineage maps a character to    *)
(* <<>> (no record) or <<record>>; t is datetime.utcnow()                  *)
(***************************************************************************)
\* the record a character gets when it is first seen among the survivors
NewLineage ==
    [generations |-> <<>>, wins |-> 0, survivals |-> 0, eliminations |-> 0,
     evolution_score |-> 0]

\* wins * 10 + survivals * 3 - eliminations * 5
EvolutionScore(lineage) ==
    lineage.wins * 10 + lineage.survivals * 3 - lineage.eliminations * 5

\* "Record winners": the loop over the survivors
RECURSIVE RecordSurvivors(_, _, _, _)
RecordSurvivors(lineage, race_id, survivors, t) ==
    IF survivors = <<>> THEN lineage
    ELSE
    LET result == Head(survivors)
        char == result.character
        had == IF lineage[char] = <<>> THEN NewLineage ELSE lineage[char][1]
        gen == [race_id |-> race_id, rank |-> result.rank,
                pnl |-> result.pnl, pnl_pct |-> result.pnl_pct,
                strategy |-> result.strategy, timestamp |-> t,
                outcome |-> IF result.rank = 1 THEN "WIN" ELSE "SURVIVED"]
        counted == IF result.rank = 1
                   THEN [had EXCEPT !.generations = Append(@, gen),
                                    !.wins = @ + 1]
                   ELSE [had EXCEPT !.generations = Append(@, gen),
                                    !.survivals = @ + 1]
        scored == [counted EXCEPT !.evolution_score = EvolutionScore(counted)]
    IN  RecordSurvivors([lineage EXCEPT ![char] = <<scored>>], race_id,
                        Tail(survivors), t)

\* "Record eliminated strategies": the loop over the eliminated
RECURSIVE RecordEliminated(_, _)
RecordEliminated(lineage, eliminated) ==
    IF eliminated = <<>> THEN lineage
    ELSE
    LET char == Head(eliminated).character
    IN  RecordEliminated(
            IF lineage[char] # <<>>
            THEN [lineage EXCEPT ![char] =
                     <<[@[1] EXCEPT !.eliminations = @ + 1]>>]
            ELSE lineage,
            Tail(eliminated))

\* int(len(sorted_results) * 0.6)
EvolverCut(n) == Trunc(RMul(I(n), R(6, 10)))

\* record_race_outcome, as far as the lineage goes
RecordRaceOutcome(lineage, race_id, results, t) ==
    Bind(SortDesc(results, "pnl"), LAMBDA sorted_results :
    Bind(EvolverCut(Len(sorted_results)), LAMBDA cut :
    RecordEliminated(
        RecordSurvivors(lineage, race_id, SubSeq(sorted_results, 1, cut), t),
        SubSeq(sorted_results, cut + 1, Len(sorted_results)))))

(***************************************************************************)
(* career_progression.py: CareerTracker.  The achievements and the title   *)
(* of a career are not modelled; its counters, streaks and history are.    *)
(***************************************************************************)
\* get_or_create_career: the record of an agent that is new
NewCareer ==
    [races_completed |-> 0, wins |-> 0, survivals |-> 0, eliminations |-> 0,
     rank_history |-> <<>>, best_performance |-> Zero,
     worst_performance |-> Zero, total_pnl |-> Zero, consecutive_wins |-> 0,
     consecutive_survivals |-> 0]

\* elimination_zone = int(total_bots * 0.4)
CareerZone(total_bots) == Trunc(RMul(I(total_bots), R(4, 10)))

\* record_race_result on the career of the agent
RecordRaceResult(career, race_id, rank, total_bots, pnl, pnl_pct, t) ==
    LET updated ==
            [career EXCEPT
                !.races_completed = @ + 1,
                !.total_pnl = RAdd(@, pnl),
                !.rank_history = Append(@, [race_id |-> race_id, rank |-> rank,
                                            pnl |-> pnl, pnl_pct |-> pnl_pct,
                                            date |-> t]),
                !.best_performance = IF RGt(pnl_pct, @) THEN pnl_pct ELSE @,
                !.worst_performance = IF RLt(pnl_pct, @) THEN pnl_pct ELSE @]
    IN  IF rank = 1
        THEN [updated EXCEPT !.wins = @ + 1,
                             !.consecutive_wins = @ + 1,
                             !.consecutive_survivals = @ + 1]
        ELSE IF rank > total_bots - CareerZone(total_bots)
        THEN [updated EXCEPT !.eliminations = @ + 1,
                             !.consecutive_wins = 0,
                             !.consecutive_survivals = 0]
        ELSE [updated EXCEPT !.survivals = @ + 1,
                             !.consecutive_survivals = @ + 1,
                             !.consecutive_wins = 0]

(***************************************************************************)
(* Actions.  U is the universe the inputs of a specification are drawn     *)
(* from: U.agents the agents the trader is called on, U.closes[s] the      *)
(* closes symbol s can trade at, U.fails the ways its lookup can fail,      *)
(* U.dirs[s] the directions it is entered                                  *)
(* in, U.sizes, U.levs, U.stops, U.profits the argument values, U.feeds    *)
(* and U.markets what the lookups and get_market_data can return in one    *)
(* cycle, U.duration the length of the race in                             *)
(* seconds, U.max_trades the length of a trade log after which no further  *)
(* call is made, U.max_cycles the number of trading cycles followed,       *)
(* U.horizon the time after which the run is not followed.                 *)
(***************************************************************************)
\* the lookups of symbol s, and the lookups of each symbol of S
LookupsOf(U, s) ==
    {Close(n) : n \in U.closes[s]} \cup {Failed(k) : k \in U.fails}
FeedsFor(U, S) ==
    {f \in [S -> UNION {LookupsOf(U, x) : x \in S}] :
        \A x \in S : f[x] \in LookupsOf(U, x)}
Held(ps) == {ps[i].symbol : i \in 1..Len(ps)}
WalletOf(a) == Wallet(cash[a], positions[a], trades[a])

\* last: the method called last and how it ended
Called(op, why) == [op |-> op, why |-> why]

SetWallet(a, ag) ==
    /\ cash' = [cash EXCEPT ![a] = ag.cash]
    /\ positions' = [positions EXCEPT ![a] = ag.positions]
    /\ trades' = [trades EXCEPT ![a] = ag.trades]

SetWorld(w) ==
    /\ cash' = w.cash
    /\ positions' = w.positions
    /\ trades' = w.trades
    /\ pnl_history' = w.pnl_history
    /\ strategy_params' = w.strategy_params
    /\ price_cache' = w.cache

EntryCall(U, a, symbol, direction, size_pct, leverage, lk) ==
    LET feed == [s \in {symbol} |-> lk]
        r == ExecuteEntry(WalletOf(a), price_cache, now, feed, symbol,
                          direction, size_pct, leverage, "call")
    IN  /\ Len(trades[a]) < U.max_trades
        /\ SetWallet(a, r.ag)
        /\ price_cache' = r.cache
        /\ last' = Called("execute_entry", r.why)
        /\ UNCHANGED <<args, ret,
                       pnl_history, strategy_params, archetype, race_status,
                       start_time, end_time, now>>

ExitCall(U, a, symbol, lk) ==
    LET feed == [s \in {symbol} |-> lk]
        r == ExecuteExit(WalletOf(a), price_cache, now, feed, symbol, "call")
    IN  /\ Len(trades[a]) < U.max_trades
        /\ SetWallet(a, r.ag)
        /\ price_cache' = r.cache
        /\ last' = Called("execute_exit", r.why)
        /\ UNCHANGED <<args, ret,
                       pnl_history, strategy_params, archetype, race_status,
                       start_time, end_time, now>>

UpdateCall(a, feed) ==
    LET r == UpdatePositions(WalletOf(a), price_cache, now, feed)
    IN  /\ positions[a] # <<>>
        /\ SetWallet(a, r.ag)
        /\ price_cache' = r.cache
        /\ last' = Called("update_positions", "ok")
        /\ UNCHANGED <<args, ret,
                       pnl_history, strategy_params, archetype, race_status,
                       start_time, end_time, now>>

StopLossCall(U, a, stop_loss_pct, feed) ==
    LET r == CheckStopLoss(WalletOf(a), price_cache, now, feed, stop_loss_pct)
    IN  /\ positions[a] # <<>>
        /\ Len(trades[a]) < U.max_trades
        /\ SetWallet(a, r.ag)
        /\ price_cache' = r.cache
        /\ last' = Called("check_stop_loss",
                          IF r.raised THEN "raised" ELSE "ok")
        /\ UNCHANGED <<args, ret,
                       pnl_history, strategy_params, archetype, race_status,
                       start_time, end_time, now>>

TakeProfitCall(U, a, take_profit_pct, feed) ==
    LET r == CheckTakeProfit(WalletOf(a), price_cache, now, feed,
                             take_profit_pct)
    IN  /\ positions[a] # <<>>
        /\ Len(trades[a]) < U.max_trades
        /\ SetWallet(a, r.ag)
        /\ price_cache' = r.cache
        /\ last' = Called("check_take_profit",
                          IF r.raised THEN "raised" ELSE "ok")
        /\ UNCHANGED <<args, ret,
                       pnl_history, strategy_params, archetype, race_status,
                       start_time, end_time, now>>

\* Arena.start_race
StartRace ==
    /\ start_time' = <<now>>
    /\ race_status' = "running"
    /\ last' = Called("start_race", "ok")
    /\ UNCHANGED <<args, ret,
                   cash, positions, trades, pnl_history, strategy_params,
                   archetype, price_cache, end_time, now>>

\* Arena.run_cycle
RunCycle(U, feed, market) ==
    IF race_status # "running"
    THEN /\ last' = Called("run_cycle", "no_active_race")
         /\ UNCHANGED <<args, ret,
                        cash, positions, trades, pnl_history, strategy_params,
                        archetype, price_cache, race_status, start_time,
                        end_time, now>>
    ELSE IF IsComplete(U.duration)
    THEN \E r \in {EndRace(World, now, feed)} :
             /\ SetWorld(r.w)
             /\ end_time' = <<now>>
             /\ race_status' = "completed"
             /\ last' = Called("run_cycle", IF r.raised THEN "end_race_raised"
                                            ELSE "race_complete")
             /\ UNCHANGED <<args, ret, archetype, start_time, now>>
    ELSE /\ Len(pnl_history[RaceAgents[1]]) < U.max_cycles
         /\ \E r \in {RunTradingCycle(World, now, feed, market)} :
             /\ SetWorld(r.w)
             /\ last' = Called("run_cycle", IF r.raised THEN "raised" ELSE "ok")
             /\ UNCHANGED <<args, ret,
                            archetype, race_status, start_time, end_time, now>>

\* time passes between two calls
Tick(U, d) ==
    /\ now + d <= U.horizon
    /\ now' = now + d
    /\ UNCHANGED <<args, ret,
                   cash, positions, trades, pnl_history, strategy_params,
                   archetype, price_cache, race_status, start_time, end_time,
                   last>>

\* a function is called on its own, on the arguments args: the arena is left
\* as it is
Apply(op, why, result) ==
    /\ ret' = result
    /\ last' = Called(op, why)
    /\ UNCHANGED <<args, cash, positions, trades, pnl_history,
                   strategy_params, archetype, price_cache, race_status,
                   start_time, end_time, now>>

\* Race.get_leaderboard on a race of the agents args.agents whose wallets
\* are args.W
GetLeaderboardCall ==
    Apply("get_leaderboard", "ok",
          [leaderboard |-> LeaderboardOf(args.agents, args.W)])

\* end_race on that race, after the positions are closed
EndRaceResultsCall ==
    LET results == EndRaceResults(LeaderboardOf(args.agents, args.W))
    IN  Apply("end_race", IF results.raised THEN "raised" ELSE "ok", results)

\* calculate_standings and get_elimination_zone as run_cycle calls them
GetEliminationZoneCall ==
    LET standings == StandingsOf(args.agents, args.W)
    IN  Apply("get_elimination_zone", "ok",
              [standings |-> standings,
               zone |-> GetEliminationZone(standings, Len(args.agents))])

\* PaperTrader.get_price(symbol) called on its own; lk is what a fresh
\* lookup of the symbol yields now
GetPriceCall(symbol, lk) ==
    \E r \in {GetPrice(price_cache, now, symbol, lk)} :
       /\ price_cache' = r.cache
       /\ ret' = [symbol |-> symbol, lk |-> lk, price |-> r.price]
       /\ last' = Called("get_price",
                         IF r.price = None THEN "unavailable" ELSE "ok")
       /\ UNCHANGED <<args, cash, positions, trades, pnl_history,
                      strategy_params, archetype, race_status, start_time,
                      end_time, now>>

\* SignalGenerator.generate_signal(agent, symbol) for the agent, the market
\* and one of the preferred assets of args
GenerateSignalCall(symbol) ==
    Apply("generate_signal", "ok",
          [symbol |-> symbol,
           signal |-> GenerateSignal(args.name, args.params,
                                     MarketData(args.market, symbol))])

\* Arena._run_agent_cycle(agent) for the agent, the lookups and the market of
\* args, with the trader's cache empty
RunAgentCycleCall ==
    \E r \in {RunAgentCycle(args.ag, <<>>, args.params, args.name, EmptyCache,
                            now, args.feed, args.market)} :
       Apply("run_agent_cycle", IF r.raised THEN "raised" ELSE "ok", r)

\* the characters of a results list
Taking(results) == {results[i].character : i \in 1..Len(results)}

\* StrategyEvolver.record_race_outcome(race_id, results) on the lineage of
\* args; rounds counts, for each character, the calls whose results held it
RecordRaceOutcomeCall ==
    Apply("record_race_outcome", "ok",
          [lineage |-> RecordRaceOutcome(args.lineage, args.race_id,
                                         args.results, now),
           rounds |-> [c \in DOMAIN args.rounds |->
                          IF c \in Taking(args.results)
                          THEN args.rounds[c] + 1 ELSE args.rounds[c]]])

\* the next race ends: its results go to the evolver, which holds the
\* lineage the last call left
NextRace(U) ==
    /\ last.op = "record_race_outcome"
    /\ args.race_id < U.races
    /\ \E results \in U.results :
          args' = [race_id |-> args.race_id + 1, results |-> results,
                   lineage |-> ret.lineage, rounds |-> ret.rounds]
    /\ last' = Called("next_race", "ok")
    /\ UNCHANGED <<ret, cash, positions, trades, pnl_history, strategy_params,
                   archetype, price_cache, race_status, start_time, end_time,
                   now>>

\* StrategyMutator.mutate_agent on the parent, the mutation type and the
\* random draws of args
MutateAgentCall ==
    Apply("mutate_agent", "ok",
          MutateAgent(args.parent_agent, args.mutation_type, args.draw, now))

\* the "-" tokens of a name: one per mutation behind it
Generations(name) == Cardinality({i \in 1..Len(name) : name[i] = "-"})

\* the child survives its race without a trade and is the parent of the next
\* mutation (create_evolved_cohort over the survivors of the next race)
NextGeneration ==
    /\ last.op = "mutate_agent"
    /\ Generations(ret.child.name) < MaxGenerations
    /\ args' = [args EXCEPT !.parent_agent = ret.child]
    /\ last' = Called("next_generation", "ok")
    /\ UNCHANGED <<ret, cash, positions, trades, pnl_history, strategy_params,
                   archetype, price_cache, race_status, start_time, end_time,
                   now>>

(***************************************************************************)
(* Initial state: Arena() and create_race(num_bots=2, risk_tier="high")    *)
(* have run; the cohort is a YOLO and a Scalper agent.                     *)
(***************************************************************************)
Cohort == [a \in Agents |-> IF a = 1 THEN "YOLO" ELSE "Scalper"]

\* the values random.uniform / random.randint returned in
\* _generate_strategy_params
Draws ==
    {[entry_threshold |-> R(25, 100), stop_loss_pct |-> R(5, 100),
      take_profit_pct |-> R(5, 100), max_positions |-> 2,
      position_size_pct |-> R(3, 10), min_hold_minutes |-> 5]}

InitArena ==
    /\ cash = [a \in Agents |-> I(STARTING_CAPITAL)]
    /\ positions = [a \in Agents |-> <<>>]
    /\ trades = [a \in Agents |-> <<>>]
    /\ pnl_history = [a \in Agents |-> <<>>]
    /\ archetype = Cohort
    /\ \E draw \in [Agents -> Draws] :
          strategy_params =
              [a \in Agents |-> GenerateStrategyParams(Cohort[a], "high", draw[a])]
    /\ price_cache = EmptyCache
    /\ race_status = "pending"
    /\ start_time = None
    /\ end_time = None
    /\ now = 0
    /\ last = Called("init", "ok")

Init ==
    /\ InitArena
    /\ args = None
    /\ ret = None

(***************************************************************************)
(* Specifications                                                          *)
(***************************************************************************)
\* the public methods of PaperTrader called in any order
TraderNext(U) ==
    \/ \E a \in U.agents, s \in Symbols, sz \in U.sizes, lev \in U.levs :
          \E dir \in U.dirs[s], lk \in LookupsOf(U, s) :
             EntryCall(U, a, s, dir, sz, lev, lk)
    \/ \E a \in U.agents, s \in Symbols : \E lk \in LookupsOf(U, s) :
          ExitCall(U, a, s, lk)
    \/ \E a \in U.agents : \E feed \in FeedsFor(U, Held(positions[a])) :
          UpdateCall(a, feed)
    \/ \E a \in U.agents, slp \in U.stops :
          \E feed \in FeedsFor(U, Held(positions[a])) :
             StopLossCall(U, a, slp, feed)
    \/ \E a \in U.agents, tpp \in U.profits :
          \E feed \in FeedsFor(U, Held(positions[a])) :
             TakeProfitCall(U, a, tpp, feed)
    \/ Tick(U, CacheDuration)

\* the race: start_race, then run_cycle again and again
ArenaNext(U) ==
    \/ StartRace
    \/ \E feed \in U.feeds, market \in U.markets : RunCycle(U, feed, market)
    \/ Tick(U, CacheDuration)

\* what get_market_data can return: nothing, a quiet market, a surging one
Quiet ==
    [change_pct |-> I(1), rsi |-> I(50), trend |-> "UP", price |-> I(100),
     high |-> I(100), low |-> I(99)]
Surge ==
    [change_pct |-> I(10), rsi |-> I(75), trend |-> "UP", price |-> I(100),
     high |-> I(100), low |-> I(91)]

\* the universe of Spec
UTrader ==
    [agents |-> {1},
     closes |-> [s \in Symbols |->
                    IF s = "BTC-USD" THEN {95, 100} ELSE {100, 110}],
     fails |-> {"error"},
     dirs |-> [s \in Symbols |->
                  IF s = "BTC-USD" THEN Directions ELSE {"LONG"}],
     sizes |-> {R(3, 10), R(6, 5)},
     levs |-> {I(5)},
     stops |-> {R(5, 100)},
     profits |-> {R(5, 100)},
     max_trades |-> MaxTrades,
     horizon |-> CacheDuration]

\* the universe of SpecAllIn: every entry commits the whole cash at the
\* leverage ceiling of the high risk tier
UAllIn ==
    [agents |-> {1},
     closes |-> [s \in Symbols |->
                    IF s = "BTC-USD" THEN {95, 100} ELSE {}],
     fails |-> {"empty"},
     dirs |-> [s \in Symbols |-> Directions],
     sizes |-> {I(1)},
     levs |-> {I(20)},
     stops |-> {R(5, 100)},
     profits |-> {R(5, 100)},
     max_trades |-> MaxTrades + 1,
     horizon |-> 2 * CacheDuration]

\* the universe of SpecArena
UArena ==
    [feeds |-> {[s \in Symbols |-> IF s = "BTC-USD" THEN lk ELSE Close(100)] :
                   lk \in {Close(95), Close(100), Failed("error")}}
               \cup {[s \in Symbols |-> Failed("empty")]},
     markets |-> {[s \in Symbols |-> IF s = "BTC-USD" THEN <<Surge>>
                                                      ELSE <<Quiet>>],
                  [s \in Symbols |-> <<Quiet>>],
                  [s \in Symbols |-> <<>>]},
     duration |-> MaxCycles * CacheDuration,
     max_cycles |-> MaxCycles,
     horizon |-> MaxCycles * CacheDuration]

Next == TraderNext(UTrader)
Spec == Init /\ [][Next]_vars

NextAllIn == TraderNext(UAllIn)
SpecAllIn == Init /\ [][NextAllIn]_vars

NextArena == ArenaNext(UArena)
SpecArena == Init /\ [][NextArena]_vars

\* Ranking and selection on their own: a race of 1..MaxBots agents without
\* open positions, each with one of U.cash as its cash
Rosters(U) == {[i \in 1..n |-> i] : n \in U.bots}

InitSelect(U) ==
    /\ InitArena
    /\ ret = None
    /\ \E agents \in Rosters(U) :
          \E W \in [DOMAIN agents -> {Wallet(c, <<>>, <<>>) : c \in U.cash}] :
             args = [agents |-> agents, W |-> W]

USelect == [bots |-> 1..MaxBots, cash |-> {I(900), I(1000), I(1100)}]

NextSelect ==
    \/ GetLeaderboardCall
    \/ EndRaceResultsCall
    \/ GetEliminationZoneCall
SpecSelect == InitSelect(USelect) /\ [][NextSelect]_vars


(***************************************************************************)
(* StrategyMutator.mutate_agent called on its own                          *)
(***************************************************************************)
\* TradingAgent.to_dict of an agent of the given archetype
ToDict(agent_id, display_name, name, ag, hist, params) ==
    [agent_id |-> <<agent_id>>,
     name |-> <<display_name, "_", agent_id>>,
     archetype |-> name,
     starting_capital |-> I(STARTING_CAPITAL),
     cash |-> ag.cash,
     positions |-> ag.positions,
     trades |-> ag.trades,
     pnl_history |-> hist,
     strategy_params |-> params,
     created_at |-> 0,
     total_pnl |-> TotalPnl(ag)]

\* parameters with every mutable value at one end of its range
ParamsAt(end) ==
    [entry_threshold |-> MUTABLE_PARAMS.entry_threshold[end],
     stop_loss_pct |-> MUTABLE_PARAMS.stop_loss_pct[end],
     take_profit_pct |-> MUTABLE_PARAMS.take_profit_pct[end],
     max_positions |-> MUTABLE_PARAMS.max_positions[end],
     position_size_pct |-> MUTABLE_PARAMS.position_size_pct[end],
     max_leverage |-> MUTABLE_PARAMS.max_leverage[end],
     min_hold_minutes |-> MUTABLE_PARAMS.min_hold_minutes[end],
     preferred_assets |-> <<"BTC-USD", "ETH-USD">>]

\* an agent that never traded, and one that holds a position after a cycle
FreshWallet == Wallet(I(STARTING_CAPITAL), <<>>, <<>>)
LiveWallet ==
    ExecuteEntry(FreshWallet, EmptyCache, 0, [s \in Symbols |-> Close(100)],
                 "BTC-USD", "LONG", R(3, 10), I(10), "Scalp").ag

\* the draws of one iteration of a tweak loop: lo and hi are the ends of
\* the ranges of random.uniform and random.randint
TweakDraws(param, lo, hi, n) ==
    IF MUTABLE_PARAMS[param].mode = "multiply"
    THEN {[param |-> param, uniform |-> u, randint |-> 0] : u \in {lo, hi}}
    ELSE {[param |-> param, uniform |-> Zero, randint |-> k] : k \in {-n, n}}

\* the random draws of a call that resolves to the mutation kind
DrawsOf(kind) ==
    LET plain == [suffix |-> "Prime", serial |-> "1000", choice |-> kind,
                  tweaks |-> <<>>, tighter |-> TRUE, higher |-> TRUE,
                  sample |-> <<"BTC-USD", "ETH-USD">>, faster |-> TRUE]
        keys == 1..Len(MutableKeys)
        one == UNION {TweakDraws(MutableKeys[i], R(-1, 10), R(1, 10), 1) :
                         i \in keys}
    IN  IF kind = "conservative"
        THEN {[plain EXCEPT !.tweaks = <<x>>] : x \in one}
             \cup {[plain EXCEPT !.tweaks = <<x, y>>] : x \in one, y \in one}
        ELSE IF kind = "aggressive"
        THEN {[plain EXCEPT !.tweaks =
                  [i \in 1..4 |->
                      CHOOSE d \in TweakDraws(MutableKeys[ks[i]],
                                              RNeg(mutation_rate),
                                              mutation_rate, 5) :
                          IF up THEN d.uniform[1] > 0 \/ d.randint > 0
                          ELSE d.uniform[1] < 0 \/ d.randint < 0]] :
                 ks \in {q \in [1..4 -> keys] :
                            \A i \in 1..3 : q[i] < q[i + 1]},
                 up \in BOOLEAN}
        ELSE IF kind = "risk_adjust"
        THEN {[plain EXCEPT !.tighter = b, !.higher = c] :
                 b \in BOOLEAN, c \in BOOLEAN}
        ELSE IF kind = "asset_shift"
        THEN {[plain EXCEPT !.sample = x] :
                 x \in {<<"BTC-USD", "ETH-USD">>, <<"SPY", "QQQ">>}}
        ELSE IF kind = "time_horizon"
        THEN {[plain EXCEPT !.faster = b] : b \in BOOLEAN}
        ELSE {plain}

MutationKinds ==
    {"conservative", "risk_adjust", "asset_shift", "time_horizon", "leverage",
     "aggressive"}

InitMutate(U) ==
    /\ InitArena
    /\ ret = None
    /\ \E params \in U.params, ag \in U.wallets, kind \in MutationKinds :
       \E draw \in DrawsOf(kind), mutation_type \in {kind, "random"} :
          args = [parent_agent |->
                      ToDict("a1b2c3d4", "Rishi", "Scalper", ag,
                             IF ag.trades = <<>> THEN <<>>
                             ELSE <<PnlRecord(ag)>>,
                             params),
                  mutation_type |-> mutation_type,
                  draw |-> draw]

UMutate ==
    [params |-> {GenerateStrategyParams("Scalper", "high", d) : d \in Draws}
                \cup {ParamsAt("min_val"), ParamsAt("max_val")},
     wallets |-> {FreshWallet, LiveWallet}]

NextMutate ==
    \/ MutateAgentCall
    \/ NextGeneration

SpecMutate == InitMutate(UMutate) /\ [][NextMutate]_vars

(***************************************************************************)
(* PaperTrader.get_price called on its own, at times one second before,    *)
(* at and after the expiry of a cached price                               *)
(***************************************************************************)
UCache ==
    [closes |-> [s \in Symbols |->
                    IF s = "BTC-USD" THEN {95, 100} ELSE {100}],
     fails |-> {"error", "empty"},
     ticks |-> {CacheDuration - 1, CacheDuration},
     horizon |-> MaxExpiries * CacheDuration]

NextCache ==
    \/ \E s \in Symbols : \E lk \in LookupsOf(UCache, s) : GetPriceCall(s, lk)
    \/ \E d \in UCache.ticks : Tick(UCache, d)

SpecCache == Init /\ [][NextCache]_vars

(***************************************************************************)
(* Arena._run_agent_cycle and SignalGenerator.generate_signal called on    *)
(* their own                                                               *)
(***************************************************************************)
\* get_market_data after a fall: oversold
Crash ==
    [change_pct |-> I(-6), rsi |-> I(15), trend |-> "DOWN", price |-> I(100),
     high |-> I(106), low |-> I(100)]

\* an agent that holds the symbol, entered at 100
WalletHolding(symbol) ==
    ExecuteEntry(FreshWallet, EmptyCache, 0, [s \in Symbols |-> Close(100)],
                 symbol, "LONG", R(3, 10), I(10), "held").ag

InitScan(U) ==
    /\ InitArena
    /\ ret = None
    /\ \E name \in U.names, draw \in Draws, ag \in U.wallets :
       \E market \in [Symbols -> U.data] :
       \E feed \in FeedsFor(U, Symbols) :
          args = [name |-> name,
                  params |-> GenerateStrategyParams(name, "high", draw),
                  ag |-> ag, market |-> market, feed |-> feed]

UScan ==
    [names |-> {"Scalper", "Mean Reverter"},
     wallets |-> {FreshWallet} \cup {WalletHolding(s) : s \in Symbols},
     data |-> {<<>>, <<Quiet>>, <<Surge>>, <<Crash>>},
     closes |-> [s \in Symbols |-> {95, 100}],
     fails |-> {"error"}]

NextScan ==
    \/ \E i \in 1..Len(args.params.preferred_assets) :
          GenerateSignalCall(args.params.preferred_assets[i])
    \/ RunAgentCycleCall

SpecScan == InitScan(UScan) /\ [][NextScan]_vars

(***************************************************************************)
(* The race in a market where every symbol moves: an agent finds a signal  *)
(* for a symbol it does not hold while it is at its cap                    *)
(***************************************************************************)
UCap ==
    [UArena EXCEPT
        !.feeds = {[s \in Symbols |-> IF s = "BTC-USD" THEN lk ELSE Close(100)] :
                      lk \in {Close(95), Close(100)}},
        !.markets = {[s \in Symbols |-> <<Surge>>],
                     [s \in Symbols |-> <<Quiet>>]}]

NextCap == ArenaNext(UCap)
SpecCap == Init /\ [][NextCap]_vars

(***************************************************************************)
(* The evolver over the races of a season: record_race_outcome after each  *)
(* race, starting without a lineage file                                   *)
(***************************************************************************)
Characters == {"Harper", "Rishi", "Gus", "Yasmin"}

\* the results of a race between the characters of order, listed from the
\* last rank to the first; the P&L falls by 50 from rank to rank
ResultsOf(order) ==
    [i \in 1..Len(order) |->
        LET rank == Len(order) + 1 - i
        IN  [character |-> order[rank], rank |-> rank,
             pnl |-> I(150 - 50 * rank), pnl_pct |-> I(15 - 5 * rank),
             strategy |-> order[rank]]]

\* every ranking of every non-empty set of characters
Rankings ==
    UNION {{order \in [1..n -> Characters] :
               \A i, j \in 1..n : i # j => order[i] # order[j]} :
              n \in 1..Cardinality(Characters)}

InitLineage(U) ==
    /\ InitArena
    /\ ret = None
    /\ \E results \in U.results :
          args = [race_id |-> 1, results |-> results,
                  lineage |-> [c \in Characters |-> <<>>],
                  rounds |-> [c \in Characters |-> 0]]

ULineage == [results |-> {ResultsOf(order) : order \in Rankings},
             races |-> MaxRaces]

NextLineage ==
    \/ RecordRaceOutcomeCall
    \/ NextRace(ULineage)

SpecLineage == InitLineage(ULineage) /\ [][NextLineage]_vars

(***************************************************************************)
(* The final ranking of a race handed to the arena, the evolver and the    *)
(* career tracker                                                          *)
(***************************************************************************)
\* the results list of record_race_outcome read off a leaderboard
ResultsFrom(leaderboard) ==
    [i \in 1..Len(leaderboard) |->
        [character |-> leaderboard[i].name, rank |-> leaderboard[i].rank,
         pnl |-> leaderboard[i].pnl, pnl_pct |-> leaderboard[i].pnl_pct,
         strategy |-> leaderboard[i].name]]

\* the agents of the race of args
Racing == {args.agents[i] : i \in 1..Len(args.agents)}

\* StrategyEvolver.record_race_outcome on the final ranking of the race of
\* args, without a lineage file
EvolverOnRanking ==
    \E leaderboard \in {LeaderboardOf(args.agents, args.W)} :
       Apply("record_race_outcome", "ok",
             [lineage |->
                 RecordRaceOutcome([a \in Racing |-> <<>>], 1,
                                   ResultsFrom(leaderboard), now)])

\* record_race_result for every agent of the race of args, each with a new
\* career
CareersOnRanking ==
    \E leaderboard \in {LeaderboardOf(args.agents, args.W)} :
       Apply("record_race_result", "ok",
             [careers |->
                 [a \in Racing |->
                     LET entry == leaderboard[CHOOSE i \in 1..Len(leaderboard) :
                                                 leaderboard[i].name = a]
                     IN  RecordRaceResult(NewCareer, 1, entry.rank,
                                          Len(leaderboard), entry.pnl,
                                          entry.pnl_pct, now)]])

NextCut ==
    \/ EndRaceResultsCall
    \/ EvolverOnRanking
    \/ CareersOnRanking

SpecCut == InitSelect(USelect) /\ [][NextCut]_vars

(***************************************************************************)
(* Properties of the trader (Spec, SpecAllIn)                              *)
(***************************************************************************)
\* the records a step appended to agent a's trades
NewTrades(a) == SubSeq(trades'[a], Len(trades[a]) + 1, Len(trades'[a]))

\* the step only appended to agent a's trades
TradesExtended(a) ==
    /\ Len(trades'[a]) >= Len(trades[a])
    /\ SubSeq(trades'[a], 1, Len(trades[a])) = trades[a]

\* the step left agent a's cash, positions and trades as they were
WalletUnchanged(a) ==
    /\ cash'[a] = cash[a]
    /\ positions'[a] = positions[a]
    /\ trades'[a] = trades[a]

\* the signed move of a position relative to its entry, as a fraction
SignedMove(position, price) ==
    IF position.direction = "LONG"
    THEN RDiv(RSub(price, position.entry_price), position.entry_price)
    ELSE RNeg(RDiv(RSub(price, position.entry_price), position.entry_price))

\* the cache holds a price of symbol s that is valid now
Fresh(cache, s) ==
    cache[s] # <<>> /\ now - cache[s][1].cached_at < CacheDuration

\* a get_price(s) made now, with a fresh lookup yielding lk, is unavailable
Unavailable(s, lk) == ~Fresh(price_cache, s) /\ lk.kind # "ok"

\* the step is a call of the method op
Step(op) == last'.op = op /\ now' = now

\* C1: every successful execute_entry has margin = cash_before * size_pct,
\* leaves cash_after = cash_before - margin, inserts a position for the
\* symbol carrying that margin, and appends exactly one record, an ENTRY, to
\* the agent's trades.
C1_EntryDebitsMargin ==
    [][Step("execute_entry") =>
       \A a \in UTrader.agents, s \in Symbols, sz \in UTrader.sizes,
          lev \in UTrader.levs :
          \A dir \in UTrader.dirs[s], lk \in LookupsOf(UTrader, s) :
             (/\ last'.why = "ok"
              /\ EntryCall(UTrader, a, s, dir, sz, lev, lk))
             => LET margin == RMul(cash[a], sz)
                    n == Len(trades[a])
                IN  /\ cash'[a] = RSub(cash[a], margin)
                    /\ HasPosition(positions'[a], s)
                    /\ PositionOf(positions'[a], s).margin = margin
                    /\ PositionOf(positions'[a], s).direction = dir
                    /\ TradesExtended(a)
                    /\ Len(trades'[a]) = n + 1
                    /\ trades'[a][n + 1].type = "ENTRY"
                    /\ trades'[a][n + 1].symbol = s
                    /\ trades'[a][n + 1].margin = margin]_vars

\* an entry of 30% of 1000 has just succeeded
C1_Witness ==
    /\ last = Called("execute_entry", "ok")
    /\ cash[1] = I(700)
    /\ Len(positions[1]) = 1
    /\ positions[1][1].margin = I(300)
    /\ Len(trades[1]) = 1

\* C2: every successful execute_exit has pnl = (exit - entry) * qty for a
\* LONG and (entry - exit) * qty for a SHORT position, leaves cash_after =
\* cash_before + margin + pnl, removes the symbol from the positions, and
\* appends exactly one record, an EXIT carrying that pnl, to the trades.
C2_ExitCreditsMarginAndPnl ==
    [][Step("execute_exit") =>
       \A a \in UTrader.agents, s \in Symbols :
          \A lk \in LookupsOf(UTrader, s) :
             (/\ last'.why = "ok"
              /\ ExitCall(UTrader, a, s, lk))
             => LET p == PositionOf(positions[a], s)
                    exit_price == price_cache'[s][1].price
                    pnl == IF p.direction = "LONG"
                           THEN RMul(RSub(exit_price, p.entry_price), p.qty)
                           ELSE RMul(RSub(p.entry_price, exit_price), p.qty)
                    n == Len(trades[a])
                IN  /\ HasPosition(positions[a], s)
                    /\ cash'[a] = RAdd(RAdd(cash[a], p.margin), pnl)
                    /\ ~HasPosition(positions'[a], s)
                    /\ TradesExtended(a)
                    /\ Len(trades'[a]) = n + 1
                    /\ trades'[a][n + 1].type = "EXIT"
                    /\ trades'[a][n + 1].symbol = s
                    /\ trades'[a][n + 1].exit_price = exit_price
                    /\ trades'[a][n + 1].pnl = pnl]_vars

\* a SHORT position has just been closed at a price other than its entry
C2_Witness ==
    /\ last = Called("execute_exit", "ok")
    /\ Len(trades[1]) >= 2
    /\ trades[1][Len(trades[1])].type = "EXIT"
    /\ trades[1][Len(trades[1])].direction = "SHORT"
    /\ trades[1][Len(trades[1])].pnl # Zero

\* the pnl of the EXIT records of a trade log, summed
RECURSIVE RealizedPnl(_)
RealizedPnl(ts) ==
    IF ts = <<>> THEN Zero
    ELSE IF Head(ts).type = "EXIT"
    THEN RAdd(Head(ts).pnl, RealizedPnl(Tail(ts)))
    ELSE RealizedPnl(Tail(ts))

\* agent a's cash plus the margins locked in its open positions is its
\* starting capital plus its realized pnl
MarginAccounted(a) ==
    RAdd(cash[a], SumField(positions[a], "margin"))
        = RAdd(I(STARTING_CAPITAL), RealizedPnl(trades[a]))

\* C3: after any sequence of execute_entry, execute_exit, update_positions,
\* check_stop_loss and check_take_profit calls on one agent, every margin
\* debited at an open is still locked in an open position or was credited
\* back at a close, and there is at most one position per symbol: cash plus
\* the margins of the open positions equals the starting capital plus the
\* pnl of all EXIT records.
C3_MarginConservation ==
    \A a \in Agents :
        /\ \A i, j \in 1..Len(positions[a]) :
              positions[a][i].symbol = positions[a][j].symbol => i = j
        /\ MarginAccounted(a)

\* C4: an execute_entry whose required capital cash * size_pct exceeds the
\* agent's cash is rejected: it returns no position and leaves the agent's
\* cash, positions and trades as they were.
C4_InsufficientMarginRejected ==
    [][Step("execute_entry") =>
       \A a \in UTrader.agents, s \in Symbols, sz \in UTrader.sizes,
          lev \in UTrader.levs :
          \A dir \in UTrader.dirs[s], lk \in LookupsOf(UTrader, s) :
             (/\ RGt(RMul(cash[a], sz), cash[a])
              /\ EntryCall(UTrader, a, s, dir, sz, lev, lk))
             => /\ last'.why \in {"insufficient_funds", "no_price"}
                /\ WalletUnchanged(a)]_vars

\* an entry has just been rejected for lack of funds
C4_Witness ==
    /\ last = Called("execute_entry", "insufficient_funds")
    /\ RGt(cash[1], Zero)

\* C5: get_price returns unavailable instead of raising, and a call that
\* gets unavailable for a symbol skips that symbol only.  execute_entry and
\* execute_exit leave the wallet as it was; update_positions, check_stop_loss
\* and check_take_profit leave that symbol's position as it was, append no
\* trade for it, and still evaluate every other open symbol: the update
\* marks it at the fetched price, a check closes it exactly when its
\* threshold is met.
C5_PriceUnavailableSkipsSymbol ==
    [][/\ Step("execute_entry") =>
          \A a \in UTrader.agents, s \in Symbols, sz \in UTrader.sizes,
             lev \in UTrader.levs :
             \A dir \in UTrader.dirs[s], lk \in LookupsOf(UTrader, s) :
                (/\ Unavailable(s, lk)
                 /\ EntryCall(UTrader, a, s, dir, sz, lev, lk))
                => WalletUnchanged(a)
       /\ Step("execute_exit") =>
          \A a \in UTrader.agents, s \in Symbols :
             \A lk \in LookupsOf(UTrader, s) :
                (/\ Unavailable(s, lk)
                 /\ ExitCall(UTrader, a, s, lk))
                => WalletUnchanged(a)
       /\ Step("update_positions") =>
          \A a \in UTrader.agents :
             \A feed \in FeedsFor(UTrader, Held(positions[a])) :
                UpdateCall(a, feed)
                => /\ cash'[a] = cash[a]
                   /\ trades'[a] = trades[a]
                   /\ Len(positions'[a]) = Len(positions[a])
                   /\ \A i \in 1..Len(positions[a]) :
                         LET p == positions[a][i]
                         IN  IF Unavailable(p.symbol, feed[p.symbol])
                             THEN positions'[a][i] = p
                             ELSE /\ Fresh(price_cache', p.symbol)
                                  /\ positions'[a][i].current_price
                                        = price_cache'[p.symbol][1].price
       /\ Step("check_stop_loss") =>
          \A a \in UTrader.agents, slp \in UTrader.stops :
             \A feed \in FeedsFor(UTrader, Held(positions[a])) :
                (/\ last'.why = "ok"
                 /\ StopLossCall(UTrader, a, slp, feed))
                => /\ TradesExtended(a)
                   /\ \A i \in 1..Len(positions[a]) :
                         LET p == positions[a][i]
                             s == p.symbol
                         IN  IF Unavailable(s, feed[s])
                             THEN /\ HasPosition(positions'[a], s)
                                  /\ PositionOf(positions'[a], s) = p
                                  /\ \A j \in 1..Len(NewTrades(a)) :
                                        NewTrades(a)[j].symbol # s
                             ELSE /\ Fresh(price_cache', s)
                                  /\ RLe(SignedMove(p, price_cache'[s][1].price),
                                         RNeg(slp))
                                        <=> ~HasPosition(positions'[a], s)
       /\ Step("check_take_profit") =>
          \A a \in UTrader.agents, tpp \in UTrader.profits :
             \A feed \in FeedsFor(UTrader, Held(positions[a])) :
                (/\ last'.why = "ok"
                 /\ TakeProfitCall(UTrader, a, tpp, feed))
                => /\ TradesExtended(a)
                   /\ \A i \in 1..Len(positions[a]) :
                         LET p == positions[a][i]
                             s == p.symbol
                         IN  IF Unavailable(s, feed[s])
                             THEN /\ HasPosition(positions'[a], s)
                                  /\ PositionOf(positions'[a], s) = p
                                  /\ \A j \in 1..Len(NewTrades(a)) :
                                        NewTrades(a)[j].symbol # s
                             ELSE /\ Fresh(price_cache', s)
                                  /\ RGe(SignedMove(p, price_cache'[s][1].price),
                                         tpp)
                                        <=> ~HasPosition(positions'[a], s)
      ]_vars

\* a stop-loss check has just closed BTC-USD while ETH-USD, listed before it
\* and without a price in that call, stays open
C5_Witness ==
    /\ last = Called("check_stop_loss", "ok")
    /\ Len(positions[1]) = 1
    /\ positions[1][1].symbol = "ETH-USD"
    /\ ~Fresh(price_cache, "ETH-USD")
    /\ Len(trades[1]) = 3
    /\ trades[1][1].symbol = "ETH-USD"
    /\ trades[1][3].type = "EXIT"
    /\ trades[1][3].symbol = "BTC-USD"
    /\ trades[1][3].reason = "STOP_LOSS"

\* C9: check_stop_loss closes, with reason STOP_LOSS, exactly the open
\* positions whose signed move relative to entry is <= -stop_loss_pct at the
\* fetched price, and no others.  The calls looked at are those on an agent
\* none of whose positions was ever overwritten by a second entry.
C9_StopLossExitsExactlyHits ==
    [][Step("check_stop_loss") =>
       \A a \in UAllIn.agents, slp \in UAllIn.stops :
          \A feed \in FeedsFor(UAllIn, Held(positions[a])) :
             (/\ MarginAccounted(a)
              /\ StopLossCall(UAllIn, a, slp, feed))
             => \A i \in 1..Len(positions[a]) :
                   LET p == positions[a][i]
                       s == p.symbol
                       hit == /\ Fresh(price_cache', s)
                              /\ RLe(SignedMove(p, price_cache'[s][1].price),
                                     RNeg(slp))
                   IN  /\ hit <=> ~HasPosition(positions'[a], s)
                       /\ hit <=> \E j \in 1..Len(NewTrades(a)) :
                                     /\ NewTrades(a)[j].type = "EXIT"
                                     /\ NewTrades(a)[j].symbol = s
                                     /\ NewTrades(a)[j].reason = "STOP_LOSS"]_vars

\* C10: check_take_profit closes, with reason TAKE_PROFIT, exactly the open
\* positions whose signed move relative to entry is >= take_profit_pct at
\* the fetched price, and no others.  The calls looked at are those on an
\* agent none of whose positions was ever overwritten by a second entry.
C10_TakeProfitExitsExactlyHits ==
    [][Step("check_take_profit") =>
       \A a \in UAllIn.agents, tpp \in UAllIn.profits :
          \A feed \in FeedsFor(UAllIn, Held(positions[a])) :
             (/\ MarginAccounted(a)
              /\ TakeProfitCall(UAllIn, a, tpp, feed))
             => \A i \in 1..Len(positions[a]) :
                   LET p == positions[a][i]
                       s == p.symbol
                       hit == /\ Fresh(price_cache', s)
                              /\ RGe(SignedMove(p, price_cache'[s][1].price),
                                     tpp)
                   IN  /\ hit <=> ~HasPosition(positions'[a], s)
                       /\ hit <=> \E j \in 1..Len(NewTrades(a)) :
                                     /\ NewTrades(a)[j].type = "EXIT"
                                     /\ NewTrades(a)[j].symbol = s
                                     /\ NewTrades(a)[j].reason = "TAKE_PROFIT"]_vars

(***************************************************************************)
(* Properties of the race (SpecArena)                                      *)
(***************************************************************************)
\* the step is a run_cycle of a running race that is not over: a trading
\* cycle
TradingCycleStep ==
    /\ race_status = "running"
    /\ ~IsComplete(UArena.duration)
    /\ last'.op = "run_cycle"
    /\ now' = now

\* the number of records of a trade log that satisfy Test
CountTrades(ts, Test(_)) == Cardinality({i \in 1..Len(ts) : Test(ts[i])})
IsEntry(t) == t.type = "ENTRY"
IsExit(t) == t.type = "EXIT"

\* C6: from every reachable state of a running round, run_cycle processes
\* every agent of the race, in list order: no failure in one agent's cycle
\* raises out of the per-agent step or keeps the remaining agents from being
\* processed.  Every processed agent gets one more pnl_history record.
C6_EveryAgentProcessed ==
    [][TradingCycleStep
       => /\ last'.why = "ok"
          /\ \A a \in Agents :
                Len(pnl_history'[a]) = Len(pnl_history[a]) + 1]_vars

\* C7: within one agent cycle the exit checks run before the entry scan,
\* stop-loss before take-profit: among the records the cycle appends no
\* ENTRY precedes an EXIT and no TAKE_PROFIT precedes a STOP_LOSS, and an
\* ENTRY is appended only if the positions left after both checks are fewer
\* than max_positions.
C7_ChecksBeforeEntryScan ==
    [][TradingCycleStep
       => \A a \in Agents :
             LET new == NewTrades(a)
             IN  /\ TradesExtended(a)
                 /\ \A i, j \in 1..Len(new) :
                       /\ (new[i].type = "ENTRY" /\ new[j].type = "EXIT")
                             => j < i
                       /\ (new[i].reason = "TAKE_PROFIT"
                              /\ new[j].reason = "STOP_LOSS") => j < i
                 /\ \A i \in 1..Len(new) :
                       new[i].type = "EXIT"
                          => new[i].reason \in {"STOP_LOSS", "TAKE_PROFIT"}
                 /\ CountTrades(new, IsEntry) > 0
                       => Len(positions[a]) - CountTrades(new, IsExit)
                             < strategy_params'[a].max_positions]_vars

\* the first agent, at its limit of one position, was stopped out and
\* entered again in its second cycle
C7_Witness ==
    /\ last = Called("run_cycle", "ok")
    /\ Len(pnl_history[1]) = 2
    /\ Len(trades[1]) = 3
    /\ trades[1][2].reason = "STOP_LOSS"
    /\ trades[1][3].type = "ENTRY"
    /\ strategy_params[1].max_positions = 1

\* C8: an agent opens at most one new position per cycle: a run of
\* _run_agent_cycle appends at most one ENTRY record and adds at most one
\* symbol to the positions, however many preferred assets qualify.
C8_OneEntryPerCycle ==
    [][TradingCycleStep
       => \A a \in Agents :
             /\ CountTrades(NewTrades(a), IsEntry) <= 1
             /\ Cardinality(Held(positions'[a]) \ Held(positions[a])) <= 1
             /\ Len(positions'[a]) <= Len(positions[a]) + 1]_vars

\* the second agent, with room for three positions, has run one cycle in a
\* quiet market, where both its preferred assets qualify (the first agent
\* found no signal), and holds only the first of them
C8_Witness ==
    /\ last = Called("run_cycle", "ok")
    /\ Len(pnl_history[2]) = 1
    /\ strategy_params[2].max_positions = 3
    /\ trades[1] = <<>>
    /\ Len(trades[2]) = 1
    /\ Len(positions[2]) = 1
    /\ positions[2][1].symbol = "BTC-USD"

(***************************************************************************)
(* Properties of the end of a round (SpecArena)                            *)
(***************************************************************************)
\* the step is a run_cycle of a running race whose time is up: it calls
\* end_race
EndRaceStep ==
    /\ race_status = "running"
    /\ IsComplete(UArena.duration)
    /\ last'.op = "run_cycle"
    /\ now' = now

\* C11: when end_race is over every agent of the race has an empty position
\* map: each position that was open has been closed by an EXIT record with
\* reason RACE_END, so the final ranking rests on realized P&L only.
C11_RoundEndLiquidation ==
    [][EndRaceStep
       => \A a \in Agents :
             /\ positions'[a] = <<>>
             /\ TradesExtended(a)
             /\ Len(NewTrades(a)) = Len(positions[a])
             /\ \A i \in 1..Len(NewTrades(a)) :
                   NewTrades(a)[i].reason = "RACE_END"]_vars

\* C14: the status of a round only moves pending -> running -> completed:
\* start_race takes effect only on a pending round, and a completed round
\* keeps its status, its start time and its end time.
C14_RoundStatusMachine ==
    [][/\ race_status' # race_status
             => <<race_status, race_status'>>
                   \in {<<"pending", "running">>, <<"running", "completed">>}
       /\ race_status = "completed"
             => UNCHANGED <<race_status, start_time, end_time>>
       /\ (Step("start_race") /\ race_status # "pending")
             => UNCHANGED <<race_status, start_time>>]_vars

\* the strategy parameters the agents were created with
BaselineParams ==
    {[a \in Agents |-> GenerateStrategyParams(Cohort[a], "high", draw[a])] :
        draw \in [Agents -> Draws]}

\* C17: at the end of a round the agents' strategy_params, which the race
\* file hands to the StrategyMutator, are the baseline they were created
\* with: what survival mode changed during the round has been reset.
C17_BaselineParamsAtRoundEnd ==
    race_status = "completed" => strategy_params \in BaselineParams

(***************************************************************************)
(* Agent isolation (SpecArena)                                             *)
(***************************************************************************)
\* agent a ends the step as _run_agent_cycle leaves it when run on a's own
\* fields of the state before the step
RanAlone(a, feed, market, raised) ==
    LET r == RunAgentCycle(WalletOf(a), pnl_history[a], strategy_params'[a],
                           archetype[a], price_cache, now, feed, market)
    IN  /\ r.raised = raised
        /\ cash'[a] = r.ag.cash
        /\ positions'[a] = r.ag.positions
        /\ trades'[a] = r.ag.trades
        /\ pnl_history'[a] = r.hist

\* the step leaves every field of agent a as it was
AgentUntouched(a) ==
    /\ WalletUnchanged(a)
    /\ pnl_history'[a] = pnl_history[a]
    /\ strategy_params'[a] = strategy_params[a]

\* C20: the cycle of one agent changes only that agent's cash, positions,
\* trades, pnl_history and strategy_params: after a trading cycle every
\* agent that was processed is as its own cycle leaves it, whatever the
\* agents before it in the list did, and an agent that was not processed
\* (an earlier cycle raised) is untouched.
C20_AgentIsolation ==
    [][TradingCycleStep
       => \E feed \in UArena.feeds, market \in UArena.markets :
             \E k \in 1..(Len(RaceAgents) + 1) :
                \A i \in 1..Len(RaceAgents) :
                   /\ i < k => RanAlone(RaceAgents[i], feed, market, FALSE)
                   /\ i = k => RanAlone(RaceAgents[i], feed, market, TRUE)
                   /\ i > k => AgentUntouched(RaceAgents[i])]_vars

\* both agents have traded in the same cycles and ended with different cash
C20_Witness ==
    /\ last = Called("run_cycle", "ok")
    /\ Len(trades[1]) >= 2
    /\ Len(trades[2]) >= 2
    /\ cash[1] # cash[2]
    /\ positions[1] # <<>>
    /\ positions[2] # <<>>

(***************************************************************************)
(* Properties of ranking and selection (SpecSelect)                        *)
(***************************************************************************)
\* ceil(x) of a non-negative rational
Ceil(x) == (x[1] + x[2] - 1) \div x[2]

\* the place of agent a in the list agents
IndexIn(agents, a) == CHOOSE i \in 1..Len(agents) : agents[i] = a

Range(f) == {f[i] : i \in DOMAIN f}

\* C12: for a round of N >= 1 agents end_race marks exactly
\* ceil(N * (1 - SURVIVAL_THRESHOLD)) agents as survivors and the other
\* N - ceil(N * (1 - SURVIVAL_THRESHOLD)) as eliminated.
C12_SurvivorCountIsCeil ==
    last.op = "end_race"
       => LET N == Len(args.agents)
              n == Ceil(RMul(I(N), RSub(I(1), SURVIVAL_THRESHOLD)))
          IN  /\ Len(ret.survivors) = n
              /\ Len(ret.eliminated) = N - n

\* the two lists of a results dict partition the agents, and no eliminated
\* agent has a higher total P&L than a survivor
SelectionSound(results) ==
    /\ Range(results.survivors) \cup Range(results.eliminated)
          = Range(args.agents)
    /\ Len(results.survivors) + Len(results.eliminated) = Len(args.agents)
    /\ \A s \in Range(results.survivors), e \in Range(results.eliminated) :
          RGe(TotalPnl(args.W[s]), TotalPnl(args.W[e]))

\* C13: end_race returns a survivors list and an eliminated list that
\* partition the agents of the race, every survivor having a total P&L at
\* least that of every eliminated agent.
C13_SelectionReturnedAndSound ==
    last.op = "end_race" => last.why = "ok" /\ SelectionSound(ret)

\* C18: get_leaderboard returns one entry per agent, sorted by pnl
\* descending, with ranks 1..N in that order; agents of equal pnl keep the
\* order they have in the race's agent list.
C18_LeaderboardRanking ==
    last.op = "get_leaderboard"
       => LET lb == ret.leaderboard
          IN  /\ Len(lb) = Len(args.agents)
              /\ {lb[i].name : i \in 1..Len(lb)} = Range(args.agents)
              /\ \A i \in 1..Len(lb) :
                    /\ lb[i].rank = i
                    /\ lb[i].pnl = TotalPnl(args.W[lb[i].name])
              /\ \A i, j \in 1..Len(lb) :
                    i < j => /\ RGe(lb[i].pnl, lb[j].pnl)
                             /\ lb[i].pnl = lb[j].pnl
                                   => IndexIn(args.agents, lb[i].name)
                                         < IndexIn(args.agents, lb[j].name)

\* a leaderboard of seven agents with a tie between the third and the
\* fifth agent of the list, above the second and below the seventh
C18_Witness ==
    /\ last.op = "get_leaderboard"
    /\ Len(ret.leaderboard) = 7
    /\ args.W[3].cash = args.W[5].cash
    /\ RLt(args.W[2].cash, args.W[3].cash)
    /\ RGt(args.W[7].cash, args.W[3].cash)
    /\ ret.leaderboard[1].name = 7

\* C19: the elimination zone is the lowest-ranked part of the standings by
\* total P&L percent: the ids of the last int(N * 0.4) entries, at least
\* one and never more than N; seven agents give a zone of two.
C19_EliminationZone ==
    last.op = "get_elimination_zone"
       => LET N == Len(args.agents)
              standings == ret.standings
              k == Max(1, (N * 4) \div 10)
          IN  /\ Len(standings) = N
              /\ {standings[i].agent_id : i \in 1..N} = Range(args.agents)
              /\ \A i \in 1..N :
                    standings[i].pnl_pct
                       = TotalPnlPct(args.W[standings[i].agent_id])
              /\ \A i, j \in 1..N :
                    i < j => RGe(standings[i].pnl_pct, standings[j].pnl_pct)
              /\ k <= N
              /\ ret.zone = {standings[i].agent_id : i \in (N - k + 1)..N}
              /\ Cardinality(ret.zone) = k
              /\ N = 7 => Cardinality(ret.zone) = 2

\* seven agents, not all with the same P&L: the zone holds two of them
C19_Witness ==
    /\ last.op = "get_elimination_zone"
    /\ Len(args.agents) = 7
    /\ Cardinality(ret.zone) = 2
    /\ \E a, b \in Range(args.agents) : args.W[a].cash # args.W[b].cash

(***************************************************************************)
(* Mutation                                                                *)
(***************************************************************************)
\* the value of a mutable parameter lies within its declared range
Within(param, v) ==
    LET b == MUTABLE_PARAMS[param]
    IN  IF b.mode = "int" THEN b.min_val <= v /\ v <= b.max_val
        ELSE RLe(b.min_val, v) /\ RLe(v, b.max_val)

InBounds(params) ==
    \A i \in 1..Len(MutableKeys) : Within(MutableKeys[i], params[MutableKeys[i]])

\* C15: when mutate_agent has run on a parent whose mutable parameters all
\* lie within their declared ranges, every mutable parameter of the child
\* that differs from the parent's lies within its declared range, whatever
\* the mutation category and however many generations came before.
C15_MutationStaysInBounds ==
    (last.op = "mutate_agent" /\ InBounds(args.parent_agent.strategy_params))
    => \A i \in 1..Len(MutableKeys) :
          LET k == MutableKeys[i]
          IN  ret.child.strategy_params[k] # args.parent_agent.strategy_params[k]
              => Within(k, ret.child.strategy_params[k])

\* C16: the child mutate_agent returns has its cash at its starting
\* capital and no trades, no P&L history and no positions, and the parent
\* dict is as it was before the call.
C16_ChildStartsReset ==
    last.op = "mutate_agent"
    => /\ ret.child.cash = ret.child.starting_capital
       /\ ret.child.cash = I(STARTING_CAPITAL)
       /\ ret.child.trades = <<>>
       /\ ret.child.pnl_history = <<>>
       /\ ret.child.positions = <<>>
       /\ ret.parent_agent = args.parent_agent

\* a parent with less cash than it started with, an open position, a trade
\* and a P&L record has been mutated
C16_Witness ==
    /\ last.op = "mutate_agent"
    /\ RLt(args.parent_agent.cash, args.parent_agent.starting_capital)
    /\ args.parent_agent.positions # <<>>
    /\ args.parent_agent.trades # <<>>
    /\ args.parent_agent.pnl_history # <<>>
    /\ ret.child.name # args.parent_agent.name

(***************************************************************************)
(* Properties of the entries of a cycle (SpecArena)                        *)
(***************************************************************************)
\* the entries a step appended carry the leverage the signals of the market
\* ask for, capped at the agent's ceiling
LeverageFollows(market) ==
    \A a \in Agents : \A i \in 1..Len(NewTrades(a)) :
       LET t == NewTrades(a)[i]
           params == strategy_params'[a]
           signal == GenerateSignal(archetype[a], params,
                                    MarketData(market, t.symbol))
       IN  t.type = "ENTRY"
           => /\ signal # None
              /\ t.leverage =
                    RMin(params.max_leverage,
                         RAdd(I(1), RMul(signal[1].strength, I(10))))
              /\ RLe(t.leverage, params.max_leverage)
              /\ HasPosition(positions'[a], t.symbol)
              /\ PositionOf(positions'[a], t.symbol).leverage = t.leverage

\* C21: every position a trading cycle opens has leverage
\* min(max_leverage, 1 + strength * 10), where strength is the strength of
\* the signal generated for its symbol in that cycle and max_leverage is the
\* agent's ceiling during the cycle; the leverage never exceeds that ceiling.
C21_EntryLeverage ==
    [][TradingCycleStep =>
       \A market \in UArena.markets :
          \/ LeverageFollows(market)
          \/ \A feed \in UArena.feeds : ~RunCycle(UArena, feed, market)]_vars

\* in one cycle the first agent entered at its ceiling (its signal asked for
\* more) and the second agent entered below its ceiling
C21_Witness ==
    /\ last = Called("run_cycle", "ok")
    /\ Len(pnl_history[1]) = 1
    /\ Len(positions[1]) = 1
    /\ positions[1][1].leverage = strategy_params[1].max_leverage
    /\ Len(positions[2]) = 1
    /\ RLt(positions[2][1].leverage, strategy_params[2].max_leverage)
    /\ positions[2][1].leverage = I(6)

(***************************************************************************)
(* Properties of single calls of the trader (Spec, SpecAllIn)              *)
(***************************************************************************)
\* the last record of agent a's trades is the ENTRY of symbol s
JustEntered(a, s) ==
    /\ last = Called("execute_entry", "ok")
    /\ trades[a] # <<>>
    /\ trades[a][Len(trades[a])].type = "ENTRY"
    /\ trades[a][Len(trades[a])].symbol = s

\* C22: an execute_exit that is the next call after a successful
\* execute_entry of the same symbol, LONG or SHORT, and gets the price of the
\* entry, succeeds with pnl = 0, puts the cash back to what it was before
\* the entry, and leaves the symbol closed.
C22_RoundTrip ==
    [][Step("execute_exit") =>
       \A a \in UAllIn.agents, s \in Symbols :
          \A lk \in LookupsOf(UAllIn, s) :
             (/\ JustEntered(a, s)
              /\ GetPrice(price_cache, now, s, lk).price
                    = trades[a][Len(trades[a])].price
              /\ ExitCall(UAllIn, a, s, lk))
             => LET n == Len(trades[a])
                    entry == trades[a][n]
                IN  /\ last'.why = "ok"
                    /\ Len(trades'[a]) = n + 1
                    /\ trades'[a][n + 1].type = "EXIT"
                    /\ trades'[a][n + 1].exit_price = entry.price
                    /\ trades'[a][n + 1].pnl = Zero
                    /\ cash'[a] = RAdd(cash[a], entry.margin)
                    /\ ~HasPosition(positions'[a], s)]_vars

\* C23: a successful entry opens a position with notional = margin *
\* leverage and qty = notional / price, and update_positions marks with the
\* signed formula.  An agent with cash 1000 that enters LONG with size_pct
\* 0.3 and leverage 5 at price 100 gets margin 300, notional 1500, qty 15 and
\* cash 700; update_positions at price 110 sets its unrealized_pnl to 150;
\* its exit at 110 leaves cash 1150.
C23_SizingScenario ==
    [][/\ Step("execute_entry") =>
          \A a \in UTrader.agents, s \in Symbols, sz \in UTrader.sizes,
             lev \in UTrader.levs :
             \A dir \in UTrader.dirs[s], lk \in LookupsOf(UTrader, s) :
                (/\ last'.why = "ok"
                 /\ EntryCall(UTrader, a, s, dir, sz, lev, lk))
                => LET p == PositionOf(positions'[a], s)
                       price == price_cache'[s][1].price
                   IN  /\ p.entry_price = price
                       /\ p.leverage = lev
                       /\ p.notional_value = RMul(p.margin, lev)
                       /\ p.qty = RDiv(p.notional_value, price)
                       /\ (/\ cash[a] = I(1000)
                           /\ sz = R(3, 10)
                           /\ lev = I(5)
                           /\ price = I(100))
                          => /\ p.margin = I(300)
                             /\ p.notional_value = I(1500)
                             /\ p.qty = I(15)
                             /\ cash'[a] = I(700)
       /\ Step("update_positions") =>
          \A a \in UTrader.agents :
             \A feed \in FeedsFor(UTrader, Held(positions[a])) :
                UpdateCall(a, feed)
                => \A i \in 1..Len(positions[a]) :
                      LET p == positions[a][i]
                          s == p.symbol
                      IN  Fresh(price_cache', s)
                          => LET price == price_cache'[s][1].price
                             IN  /\ positions'[a][i].unrealized_pnl
                                       = SignedPnl(p, price)
                                 /\ (/\ p.direction = "LONG"
                                     /\ p.entry_price = I(100)
                                     /\ p.qty = I(15)
                                     /\ price = I(110))
                                    => positions'[a][i].unrealized_pnl = I(150)
       /\ Step("execute_exit") =>
          \A a \in UTrader.agents, s \in Symbols :
             \A lk \in LookupsOf(UTrader, s) :
                (/\ last'.why = "ok"
                 /\ ExitCall(UTrader, a, s, lk)
                 /\ cash[a] = I(700)
                 /\ PositionOf(positions[a], s).direction = "LONG"
                 /\ PositionOf(positions[a], s).entry_price = I(100)
                 /\ PositionOf(positions[a], s).qty = I(15)
                 /\ PositionOf(positions[a], s).margin = I(300)
                 /\ price_cache'[s][1].price = I(110))
                => cash'[a] = I(1150)]_vars

\* the position of the scenario, marked at 110 with cash 700, has been
\* closed at 110
C23_Witness ==
    /\ last = Called("execute_exit", "ok")
    /\ cash[1] = I(1150)
    /\ positions[1] = <<>>
    /\ Len(trades[1]) = 2
    /\ trades[1][1].type = "ENTRY"
    /\ trades[1][1].direction = "LONG"
    /\ trades[1][1].price = I(100)
    /\ trades[1][1].leverage = I(5)
    /\ trades[1][1].margin = I(300)
    /\ trades[1][1].qty = I(15)
    /\ trades[1][2].exit_price = I(110)
    /\ trades[1][2].pnl = I(150)

(***************************************************************************)
(* Properties of the price cache (SpecCache)                               *)
(***************************************************************************)
\* C24: a get_price of a symbol made less than 30 seconds after the
\* successful lookup that cached its price returns the cached price and
\* leaves the cache as it is, whatever a fresh lookup would yield; a
\* get_price of a symbol never looked up, or made 30 seconds or more after
\* the lookup, returns what the fresh lookup yields: its close, which is
\* cached with the time of the call, or unavailable when it fails, with the
\* cache left as it is (the expired price is not returned).
C24_PriceCacheWindow ==
    [][Step("get_price") =>
       LET s == ret'.symbol
           lk == ret'.lk
           entry == price_cache[s]
       IN  IF entry # <<>> /\ now - entry[1].cached_at < CacheDuration
           THEN /\ ret'.price = entry[1].price
                /\ price_cache' = price_cache
           ELSE IF lk.kind = "ok"
           THEN /\ ret'.price = I(lk.close)
                /\ price_cache'[s] = <<[price |-> I(lk.close),
                                        cached_at |-> now]>>
                /\ \A x \in Symbols \ {s} : price_cache'[x] = price_cache[x]
           ELSE /\ ret'.price = None
                /\ last'.why = "unavailable"
                /\ price_cache' = price_cache]_vars

\* 29 seconds after a price was cached, a get_price returned it although a
\* fresh lookup would have yielded another close
C24_Witness ==
    /\ last = Called("get_price", "ok")
    /\ price_cache[ret.symbol] # <<>>
    /\ now - price_cache[ret.symbol][1].cached_at = CacheDuration - 1
    /\ ret.lk.kind = "ok"
    /\ ret.price # I(ret.lk.close)
    /\ ret.price = price_cache[ret.symbol][1].price

(***************************************************************************)
(* Frame properties of the trader (Spec)                                   *)
(***************************************************************************)
\* C25: an execute_exit of a symbol for which the agent has no open position
\* returns nothing to close without raising and leaves the agent's cash,
\* positions and trades, and the price cache, as they were; so a second exit
\* of a symbol that was just closed credits nothing.
C25_ExitWithoutPositionIsNoOp ==
    [][Step("execute_exit") =>
       \A a \in UTrader.agents, s \in Symbols :
          \A lk \in LookupsOf(UTrader, s) :
             (/\ ~HasPosition(positions[a], s)
              /\ ExitCall(UTrader, a, s, lk))
             => /\ last'.why = "no_position"
                /\ WalletUnchanged(a)
                /\ price_cache' = price_cache]_vars

\* an exit found nothing to close after the agent's only position was
\* closed: the cash is what the first exit left
C25_Witness ==
    /\ last = Called("execute_exit", "no_position")
    /\ positions[1] = <<>>
    /\ Len(trades[1]) = 2
    /\ trades[1][1].type = "ENTRY"
    /\ trades[1][2].type = "EXIT"
    /\ cash[1] = RAdd(I(STARTING_CAPITAL), trades[1][2].pnl)

\* the fields of a position that its entry fixes
EntryFields(p) ==
    [symbol |-> p.symbol, direction |-> p.direction, qty |-> p.qty,
     entry_price |-> p.entry_price, leverage |-> p.leverage,
     margin |-> p.margin, notional_value |-> p.notional_value,
     reason |-> p.reason]

C27_TradeLogAppendOnly ==
    [][\A a \in Agents : TradesExtended(a)]_vars

\* the race is over and an agent's log holds records of two cycles followed
\* by the RACE_END record end_race appended
C27_Witness ==
    /\ race_status = "completed"
    /\ \E a \in Agents :
          /\ Len(trades[a]) >= 3
          /\ trades[a][1].type = "ENTRY"
          /\ trades[a][Len(trades[a])].reason = "RACE_END"

\* C28: in every reachable state of a round every open position has
\* qty > 0, entry_price > 0, leverage >= 1 and margin > 0.
C28_PositionsWellFormed ==
    \A a \in Agents : \A i \in 1..Len(positions[a]) :
       LET p == positions[a][i]
       IN  /\ RGt(p.qty, Zero)
           /\ RGt(p.entry_price, Zero)
           /\ RGe(p.leverage, I(1))
           /\ RGt(p.margin, Zero)

(***************************************************************************)
(* Properties of the entry scan (SpecScan)                                 *)
(***************************************************************************)
\* generate_signal yields, for the agent of args and symbol s, a signal at
\* or above the agent's entry threshold
Qualifies(s) ==
    LET signal == GenerateSignal(args.name, args.params,
                                 MarketData(args.market, s))
    IN  /\ signal # None
        /\ RGe(signal[1].strength, args.params.entry_threshold)

\* an entry of symbol s with cash c succeeds in the cycle of args: the
\* lookup yields a price and the margin does not exceed the cash
EntrySucceeds(s, c) ==
    /\ s \in DOMAIN args.feed
    /\ args.feed[s].kind = "ok"
    /\ RLe(RMul(c, args.params.position_size_pct), c)

\* C29: generate_signal never returns a signal whose strength is below the
\* agent's entry_threshold; and an agent cycle makes at most one entry, as
\* its last trade: the symbol entered is the first of preferred_assets, in
\* order, that is not held when the scan starts, has a signal at or above
\* the threshold and whose entry succeeds.
C29_EntryGatingAndScanOrder ==
    /\ last.op = "generate_signal"
       => (ret.signal # None
              => RGe(ret.signal[1].strength, args.params.entry_threshold))
    /\ last.op = "run_agent_cycle"
       => LET n == Len(args.ag.trades)
              new == SubSeq(ret.ag.trades, n + 1, Len(ret.ag.trades))
              prefs == args.params.preferred_assets
              held == Held(args.ag.positions)
                         \ {new[i].symbol : i \in {x \in 1..Len(new) :
                                                      new[x].type = "EXIT"}}
          IN  /\ SubSeq(ret.ag.trades, 1, n) = args.ag.trades
              /\ \A i \in 1..Len(new) :
                    new[i].type = "ENTRY"
                    => /\ i = Len(new)
                       /\ \E k \in 1..Len(prefs) :
                             LET c == RAdd(ret.ag.cash, new[i].margin)
                             IN  /\ prefs[k] = new[i].symbol
                                 /\ prefs[k] \notin held
                                 /\ Qualifies(prefs[k])
                                 /\ EntrySucceeds(prefs[k], c)
                                 /\ \A j \in 1..(k - 1) :
                                       \/ prefs[j] \in held
                                       \/ ~Qualifies(prefs[j])
                                       \/ ~EntrySucceeds(prefs[j], c)

\* a Mean Reverter entered its second preferred asset: the first one, not
\* held, had a signal below the threshold, which generate_signal dropped
C29_Witness ==
    /\ last = Called("run_agent_cycle", "ok")
    /\ args.name = "Mean Reverter"
    /\ args.ag.positions = <<>>
    /\ Len(ret.ag.trades) = 1
    /\ ret.ag.trades[1].type = "ENTRY"
    /\ ret.ag.trades[1].symbol = args.params.preferred_assets[2]
    /\ LET first == MarketData(args.market, args.params.preferred_assets[1])
       IN  /\ first # <<>>
           /\ ArchetypeSignal(args.name, args.params, first[1]) # None
           /\ GenerateSignal(args.name, args.params, first) = None
    /\ args.feed[args.params.preferred_assets[1]].kind = "ok"

(***************************************************************************)
(* Properties of the record of a mutation (SpecMutate)                     *)
(***************************************************************************)
\* C30: mutated_params.changes of the child mutate_agent returns has one
\* entry for each field whose value differs between the parent's
\* strategy_params and the child's and no other entry, and each entry's
\* "from" is the parent's value and its "to" the child's value.
C30_ChangesAreTheDifference ==
    last.op = "mutate_agent"
    => LET old == args.parent_agent.strategy_params
           new == ret.child.strategy_params
           changes == ret.child.mutated_params.changes
       IN  /\ DOMAIN old = DOMAIN new
           /\ DOMAIN changes = {k \in DOMAIN old : old[k] # new[k]}
           /\ \A k \in DOMAIN changes :
                 /\ changes[k].from = <<old[k]>>
                 /\ changes[k].to = <<new[k]>>

\* a mutation changed some fields of the parent's strategy_params and left
\* others as they were
C30_Witness ==
    /\ last.op = "mutate_agent"
    /\ DOMAIN ret.child.mutated_params.changes # {}
    /\ \E k \in DOMAIN args.parent_agent.strategy_params :
          /\ k \notin DOMAIN ret.child.mutated_params.changes
          /\ ret.child.strategy_params[k] = args.parent_agent.strategy_params[k]
    /\ \E k \in DOMAIN ret.child.mutated_params.changes :
          ret.child.strategy_params[k] # args.parent_agent.strategy_params[k]

(***************************************************************************)
(* Properties of the round's clock (SpecArena)                             *)
(***************************************************************************)
\* the configured duration has elapsed since the round was started
Expired == start_time # None /\ now >= start_time[1] + UArena.duration

\* the step ran an agent cycle: a P&L record or an ENTRY was written
AgentCycleRan ==
    \E a \in Agents :
       \/ pnl_history'[a] # pnl_history[a]
       \/ \E i \in 1..Len(NewTrades(a)) : NewTrades(a)[i].type = "ENTRY"

\* C31: run_cycle polls the clock when it starts: it runs agent cycles only
\* when the round is running and its duration has not elapsed; when the
\* duration has elapsed it ends the round (status completed, end time set)
\* and runs no agent cycle, so no ENTRY is made after expiry; and when no
\* round is running it returns the error value and changes neither an agent
\* nor the round.
C31_DurationPolledAtCycleStart ==
    [][Step("run_cycle")
       => /\ AgentCycleRan => (race_status = "running" /\ ~Expired)
          /\ (race_status = "running" /\ Expired)
                => /\ race_status' = "completed"
                   /\ end_time' = <<now>>
                   /\ ~AgentCycleRan
                   /\ UNCHANGED <<strategy_params, start_time>>
          /\ race_status # "running"
                => /\ last' = Called("run_cycle", "no_active_race")
                   /\ UNCHANGED <<cash, positions, trades, pnl_history,
                                  strategy_params, archetype, price_cache,
                                  race_status, start_time, end_time>>]_vars

\* run_cycle found the duration elapsed and ended the round, closing a
\* position that an earlier cycle had opened
C31_Witness ==
    /\ last.op = "run_cycle"
    /\ race_status = "completed"
    /\ end_time = <<now>>
    /\ Expired
    /\ \E a \in Agents :
          /\ pnl_history[a] # <<>>
          /\ trades[a] # <<>>
          /\ trades[a][Len(trades[a])].reason = "RACE_END"

(***************************************************************************)
(* Properties of the position cap (SpecCap)                                *)
(***************************************************************************)
\* C32: max_positions caps the open positions: in every state of a round,
\* whatever cycles ran and whether or not survival mode adjusted the agent,
\* each agent has at most strategy_params.max_positions open positions.
C32_MaxPositionsCap ==
    \A a \in Agents : Len(positions[a]) <= strategy_params[a].max_positions

\* the YOLO agent, adjusted by survival mode, is at its cap of one position
\* after its second cycle or a later one
C32_Witness ==
    /\ last = Called("run_cycle", "ok")
    /\ archetype[1] = "YOLO"
    /\ strategy_params[1].max_leverage = I(15)
    /\ Len(pnl_history[1]) >= 2
    /\ Len(positions[1]) = strategy_params[1].max_positions

(***************************************************************************)
(* Properties of survival mode (SpecArena)                                 *)
(***************************************************************************)
\* C33: when a step changes an agent's max_leverage (survival mode, the
\* only writer), the new ceiling is at least the ceiling before and at
\* most 20; an agent already adjusted is not raised further by later
\* cycles, since a later change would again have to be an increase to a
\* value of at most 20.
C33_SurvivalLeverageRelaxes ==
    [][\A a \in Agents :
          strategy_params'[a].max_leverage # strategy_params[a].max_leverage
          => /\ RGe(strategy_params'[a].max_leverage,
                    strategy_params[a].max_leverage)
             /\ RLe(strategy_params'[a].max_leverage, I(20))]_vars

\* the agents in the elimination zone of the standings of this state
ZoneNow == GetEliminationZone(CalculateStandings(Wallets(World)),
                              Len(RaceAgents))

\* every field of the parameters but max_leverage
FrameOf(params) ==
    [k \in DOMAIN params \ {"max_leverage"} |-> params[k]]

\* C34: a step changes the strategy_params of an agent only if it is a
\* run_cycle of a running round and the agent is in the elimination zone of
\* the standings at the start of that cycle, and then max_leverage is the
\* only field that differs: entry_threshold, stop_loss_pct,
\* take_profit_pct, max_positions, position_size_pct, min_hold_minutes and
\* preferred_assets are as before.
C34_SurvivalWritesOnlyLeverageInZone ==
    [][\A a \in Agents :
          /\ FrameOf(strategy_params'[a]) = FrameOf(strategy_params[a])
          /\ strategy_params'[a] # strategy_params[a]
                => TradingCycleStep /\ a \in ZoneNow]_vars

\* after a cycle the YOLO agent, which was in the zone, has another
\* max_leverage and the fields it was created with otherwise, and the
\* Scalper has all its parameters
C34_Witness ==
    /\ last = Called("run_cycle", "ok")
    /\ \E base \in BaselineParams :
          /\ strategy_params[1] # base[1]
          /\ FrameOf(strategy_params[1]) = FrameOf(base[1])
          /\ strategy_params[2] = base[2]
    /\ Len(pnl_history[2]) >= 2

(***************************************************************************)
(* Properties of the portfolio value (Spec)                                *)
(***************************************************************************)
\* portfolio_value of agent a after the step
PortfolioValueNext(a) ==
    PortfolioValue(Wallet(cash'[a], positions'[a], trades'[a]))

\* C35: a successful execute_entry leaves the agent's portfolio value
\* (cash + margins + unrealized P&L of the open positions) as it was, and
\* the portfolio value changes only in update_positions and in steps that
\* exit a position (execute_exit, check_stop_loss, check_take_profit).
C35_EntryKeepsPortfolioValue ==
    [][\A a \in Agents :
          /\ (Step("execute_entry") /\ last'.why = "ok")
                => PortfolioValueNext(a) = PortfolioValue(WalletOf(a))
          /\ PortfolioValueNext(a) # PortfolioValue(WalletOf(a))
                => \/ Step("update_positions")
                   \/ /\ \/ Step("execute_exit")
                         \/ Step("check_stop_loss")
                         \/ Step("check_take_profit")
                      /\ \E i \in 1..Len(NewTrades(a)) :
                            NewTrades(a)[i].type = "EXIT"]_vars

(***************************************************************************)
(* The elimination zone and the cut of end_race (SpecSelect)               *)
(***************************************************************************)
\* C36: for every number of agents the elimination zone run_cycle computes
\* and the cut of end_race agree: the zone has as many agents as end_race
\* eliminates and, the P&L being the same for both, the zone is the set of
\* the eliminated agents.
C36_ZoneIsTheCut ==
    /\ last.op = "get_elimination_zone"
          => LET results == EndRaceResults(LeaderboardOf(args.agents, args.W))
             IN  /\ Cardinality(ret.zone) = Len(results.eliminated)
                 /\ ret.zone = Range(results.eliminated)
    /\ last.op = "end_race"
          => LET zone == GetEliminationZone(StandingsOf(args.agents, args.W),
                                            Len(args.agents))
             IN  /\ Len(ret.eliminated) = Cardinality(zone)
                 /\ Range(ret.eliminated) = zone

(***************************************************************************)
(* Properties of the lineage (SpecLineage)                                 *)
(***************************************************************************)
\* C37: after every record_race_outcome call, in every lineage record the
\* evolution_score is wins * 10 + survivals * 3 - eliminations * 5 of the
\* record's counters, and wins + survivals + eliminations is the number of
\* rounds the character took part in.
C37_LineageScoreIsDerived ==
    last.op = "record_race_outcome"
    => \A c \in Characters :
          ret.lineage[c] # <<>>
          => LET lineage == ret.lineage[c][1]
             IN  /\ lineage.evolution_score
                       = lineage.wins * 10 + lineage.survivals * 3
                            - lineage.eliminations * 5
                 /\ lineage.wins + lineage.survivals + lineage.eliminations
                       = ret.rounds[c]

(***************************************************************************)
(* Properties of the win rate (Spec)                                       *)
(***************************************************************************)
\* the places of the EXIT records of a trade log
ExitsOf(ts) == {i \in 1..Len(ts) : ts[i].type = "EXIT"}

\* C38: win_rate is taken over the closed trades: for an agent with at
\* least one EXIT record it is 100 * (EXIT records with pnl > 0) / (EXIT
\* records), so it is 100 when every closed trade made a profit, and it is
\* 0 for an agent that has closed nothing.
C38_WinRateOverClosedTrades ==
    \A a \in Agents :
       LET ts == trades[a]
           won == {i \in ExitsOf(ts) : RGt(ts[i].pnl, Zero)}
       IN  WinRate(WalletOf(a))
              = IF ExitsOf(ts) = {} THEN Zero
                ELSE RDiv(I(100 * Cardinality(won)),
                          I(Cardinality(ExitsOf(ts))))

(***************************************************************************)
(* The cut of the final ranking in the three modules (SpecCut)             *)
(***************************************************************************)
\* the agents end_race eliminates in the race of args
CutByArena ==
    Range(EndRaceResults(LeaderboardOf(args.agents, args.W)).eliminated)

\* C39: the modules that split a final ranking use the same cut: for every
\* number of agents and every rank, the agent of that rank is eliminated by
\* Arena.end_race exactly if StrategyEvolver.record_race_outcome treats it
\* as eliminated (it gets no lineage record from a first race) and exactly
\* if CareerTracker.record_race_result counts an elimination for it.
C39_SameCutEverywhere ==
    \E cut \in {CutByArena} :
       /\ last.op = "record_race_outcome"
             => \A a \in Racing : (ret.lineage[a] = <<>>) <=> (a \in cut)
       /\ last.op = "record_race_result"
             => \A a \in Racing :
                   (ret.careers[a].eliminations = 1) <=> (a \in cut)

(***************************************************************************)
(* The trade log and the position map (SpecArena)                          *)
(***************************************************************************)
\* the places of the records of symbol s in a trade log, in order
RecordsOf(ts, s) == {i \in 1..Len(ts) : ts[i].symbol = s}

\* the symbols an agent has traded or holds
Touched(a) ==
    {trades[a][i].symbol : i \in 1..Len(trades[a])} \cup Held(positions[a])

\* C40: in every state of a round, for each agent and symbol the ENTRY and
\* EXIT records alternate, starting with an ENTRY; the symbol is in
\* agent.positions exactly when its last record is an ENTRY; and so the
\* number of ENTRY records minus the number of EXIT records is the number
\* of open positions.
C40_LogMatchesPositions ==
    \A a \in Agents :
       LET ts == trades[a]
       IN  /\ \A s \in Touched(a) :
                 LET at == RecordsOf(ts, s)
                 IN  /\ \A i \in at :
                           ts[i].type
                              = IF Cardinality({j \in at : j < i}) % 2 = 0
                                THEN "ENTRY" ELSE "EXIT"
                     /\ s \in Held(positions[a])
                           <=> Cardinality(at) % 2 = 1
           /\ CountTrades(ts, IsEntry) - CountTrades(ts, IsExit)
                 = Len(positions[a])

\* an agent has closed a position in a symbol and holds that symbol again
C40_Witness ==
    \E a \in Agents :
       /\ Len(trades[a]) >= 3
       /\ positions[a] # <<>>
       /\ \E i \in 1..(Len(trades[a]) - 2) :
             /\ trades[a][i].type = "ENTRY"
             /\ trades[a][i + 1].type = "EXIT"
             /\ trades[a][i + 2].type = "ENTRY"
             /\ trades[a][i + 1].symbol = trades[a][i].symbol
             /\ trades[a][i + 2].symbol = trades[a][i].symbol
             /\ trades[a][i].symbol \in Held(positions[a])

=============================================================================
